---- MODULE Spec2Model ----
(***************************************************************************)
(* Wind cache of jenniferccao/wind-route-sim (src/hooks/useWindData.ts and *)
(* utils/openMeteo.ts): the point cache with its in-flight map, the arrow  *)
(* cache, the provider response handler and the pooled batch fetch.        *)
(*                                                                         *)
(* JavaScript strings are sequences of one-character strings, so that      *)
(* toLowerCase() and includes() are computed and not assumed.              *)
(* Wind speeds of a provider response are integers in 1/100 km/h, decoded  *)
(* speeds are integers in 1/10 km/h; provider directions are in 1/10       *)
(* degree, decoded directions in whole degrees.  Latitudes and longitudes  *)
(* are integers in 1/100000 degree.                                        *)
(***************************************************************************)
EXTENDS Integers, Sequences, FiniteSets, TLC

VARIABLES
    cache,          \* Map key -> HourlyWindEntry[]          (useWindData.ts:17)
    inflight,       \* Map key -> id of the pending promise  (useWindData.ts:19)
    arrowCache,     \* Map key -> (ArrowWindEntry | null)[]  (useWindData.ts:218)
    arrowInflight,  \* Map key -> id of the pending promise  (useWindData.ts:219)
    reqs,           \* provider requests issued so far, with their promises
    calls,          \* direct calls of fetchWindForPoint / loadArrowPoint
    handled,        \* the latest run of handleOpenMeteoResponse
    pool,           \* the running useMultiPointWindData effect and its pooledMap
    hook,           \* the components using useWindData / useMultiPointWindData
    scoring,        \* the calls of buildSegmentCollection and their arguments
    arrows          \* the arrow refresh: its pooled run and the glyphs built

\* the state of the callers of the wind module
appVars == <<hook, scoring, arrows>>

vars == <<cache, inflight, arrowCache, arrowInflight, reqs, calls, handled, pool,
          hook, scoring, arrows>>

----------------------------------------------------------------------------
(* Bounds *)

MaxCalls == 2          \* direct calls per behaviour
MaxBatch == 4          \* points of a batch
MaxConcurrency == 3    \* largest concurrency limit tried for pooledMap
MaxEffects == 2        \* effect runs of the two hooks together (mounts, changes of arguments)
MaxHookPoints == 2     \* points given to useMultiPointWindData
MaxRefresh == 2        \* calls of refreshArrows
GridCols == 2          \* columns of the arrow grid (the application passes 6)
GridRows == 2          \* rows of the arrow grid (the application passes 4)
MaxScoreCalls == 2     \* calls of buildSegmentCollection
MaxLoads == 1          \* GPX files uploaded
MaxToggles == 2        \* switches of a toggle
MaxGrid == 3           \* columns and rows asked of buildGridPoints

(* Program constants *)

HOURS == 24            \* arrow series length
HOOK_CONCURRENCY == 3  \* pooledMap(points, fetchSafe, 3)
ARROW_CONCURRENCY == 3
CLIMB_K == 600
N_SAMPLES == 10
HTTP_TOO_MANY == 429

----------------------------------------------------------------------------
(* JavaScript strings *)

UpperChars ==
    <<"A","B","C","D","E","F","G","H","I","J","K","L","M",
      "N","O","P","Q","R","S","T","U","V","W","X","Y","Z">>
LowerChars ==
    <<"a","b","c","d","e","f","g","h","i","j","k","l","m",
      "n","o","p","q","r","s","t","u","v","w","x","y","z">>
DigitChars ==
    <<"0","1","2","3","4","5","6","7","8","9">>

toLowerCase(s) ==
    [i \in DOMAIN s |->
        IF \E j \in DOMAIN UpperChars : UpperChars[j] = s[i]
        THEN LowerChars[CHOOSE j \in DOMAIN UpperChars : UpperChars[j] = s[i]]
        ELSE s[i]]

includes(s, t) ==
    \E i \in 1..(Len(s) - Len(t) + 1) : SubSeq(s, i, i + Len(t) - 1) = t

RECURSIVE numberToString(_)
numberToString(n) ==
    IF n < 10 THEN <<DigitChars[n + 1]>>
    ELSE numberToString(n \div 10) \o <<DigitChars[(n % 10) + 1]>>

STR_limit ==
    <<"l","i","m","i","t">>
STR_ErrorPrefix ==
    <<"E","r","r","o","r",":"," ">>
STR_TypeErrorPrefix ==
    <<"T","y","p","e","E","r","r","o","r",":"," ">>
MSG_Limit429 ==
    <<"O","p","e","n","-","M","e","t","e","o"," ","A","P","I"," ","c","a","l","l"," ","l","i","m","i","t"," ","e","x","c","e","e","d","e","d"," ","(","H","T","T","P"," ","4","2","9",")">>
MSG_LimitReasonPrefix ==
    <<"O","p","e","n","-","M","e","t","e","o"," ","A","P","I"," ","c","a","l","l"," ","l","i","m","i","t"," ","e","x","c","e","e","d","e","d",":"," ">>
MSG_HttpPrefix ==
    <<"H","T","T","P"," ">>
MSG_NoWindData ==
    <<"N","o"," ","w","i","n","d"," ","d","a","t","a"," ","a","v","a","i","l","a","b","l","e"," ","f","o","r"," ","t","h","i","s"," ","d","a","t","e">>
\* message of the engine's TypeError for `json.hourly` with json === null
MSG_NullHourly ==
    <<"C","a","n","n","o","t"," ","r","e","a","d"," ","p","r","o","p","e","r","t","i","e","s"," ","o","f"," ","n","u","l","l"," ","(","r","e","a","d","i","n","g"," ","'","h","o","u","r","l","y","'",")">>
\* message of the engine's TypeError for `json.hourly.time` without hourly
MSG_UndefTime ==
    <<"C","a","n","n","o","t"," ","r","e","a","d"," ","p","r","o","p","e","r","t","i","e","s"," ","o","f"," ","u","n","d","e","f","i","n","e","d"," ","(","r","e","a","d","i","n","g"," ","'","t","i","m","e","'",")">>
\* message of the TypeError fetch() rejects with when the network fails
MSG_FailedToFetch ==
    <<"F","a","i","l","e","d"," ","t","o"," ","f","e","t","c","h">>

\* String(err) of an Error / TypeError object
ErrorToString(err) ==
    (IF err.name = "TypeError" THEN STR_TypeErrorPrefix ELSE STR_ErrorPrefix)
        \o err.message

NoError == [name |-> "none", message |-> <<>>]
MkError(msg) == [name |-> "Error", message |-> msg]
MkTypeError(msg) == [name |-> "TypeError", message |-> msg]

----------------------------------------------------------------------------
(* Provider responses *)

\* reason strings a provider error body may carry
REASON_HourlyLimit ==
    <<"H","o","u","r","l","y"," ","A","P","I"," ","r","e","q","u","e","s","t"," ","l","i","m","i","t"," ","e","x","c","e","e","d","e","d",".">>
REASON_DailyLIMIT ==
    <<"D","a","i","l","y"," ","L","I","M","I","T"," ","r","e","a","c","h","e","d">>
REASON_RateLimited ==
    <<"R","a","t","e"," ","L","i","m","i","t","e","d">>
REASON_InvalidDate ==
    <<"I","n","v","a","l","i","d"," ","d","a","t","e">>

\* hourly arrays with n time entries of forecast variant v
MkHourly(n, v) ==
    [present |-> TRUE,
     time |-> [i \in 1..n |-> i - 1],
     windspeed_10m |-> [i \in 1..n |-> 1000 * v + 37 * i + 5],
     winddirection_10m |-> [i \in 1..n |-> (900 * v + 14 * i) % 3600]]

NoHourly ==
    [present |-> FALSE, time |-> <<>>, windspeed_10m |-> <<>>,
     winddirection_10m |-> <<>>]

\* a body: text that JSON.parse rejects, the JSON value null, or an object
TextBody ==
    [parses |-> FALSE, isNull |-> FALSE, error |-> FALSE,
     reasonIsString |-> FALSE, reason |-> <<>>, hourly |-> NoHourly]
NullBody ==
    [parses |-> TRUE, isNull |-> TRUE, error |-> FALSE,
     reasonIsString |-> FALSE, reason |-> <<>>, hourly |-> NoHourly]
ObjectBody(err, isStr, rsn, hourly) ==
    [parses |-> TRUE, isNull |-> FALSE, error |-> err,
     reasonIsString |-> isStr, reason |-> rsn, hourly |-> hourly]

MkResponse(status, body) == [status |-> status, body |-> body]

\* Response.ok
ResponseOk(r) == r.status >= 200 /\ r.status <= 299

----------------------------------------------------------------------------
(* utils/openMeteo.ts *)

Thrown(err, events) ==
    [threw |-> TRUE, err |-> err, json |-> NullBody, events |-> events]
Returned(json, events) ==
    [threw |-> FALSE, err |-> NoError, json |-> json, events |-> events]

BodySaysLimit_CaseSensitive(json) ==
    /\ ~json.isNull
    /\ json.error
    /\ json.reasonIsString
    /\ Len(json.reason) > 0
    /\ includes(json.reason, STR_limit)

\* json && json.error && json.reason && typeof json.reason === 'string'
\*   && json.reason.toLowerCase().includes('limit')
BodySaysLimit(json) ==
    /\ ~json.isNull
    /\ json.error
    /\ json.reasonIsString
    /\ Len(json.reason) > 0
    /\ includes(toLowerCase(json.reason), STR_limit)

\* the outcome of handleOpenMeteoResponse(r): what it throws or returns and
\* the details of the 'wind-rate-limit' events it dispatches, in order
handleOpenMeteoResponse(r) ==
    IF r.status = HTTP_TOO_MANY
    THEN Thrown(MkError(MSG_Limit429), <<TRUE>>)
    ELSE IF ~r.body.parses
    THEN IF ~ResponseOk(r)
         THEN Thrown(MkError(MSG_HttpPrefix \o numberToString(r.status)), <<>>)
         ELSE Returned(NullBody, <<>>)
    ELSE IF BodySaysLimit(r.body)
    THEN Thrown(MkError(MSG_LimitReasonPrefix \o r.body.reason), <<TRUE>>)
    ELSE IF ~ResponseOk(r)
    THEN Thrown(MkError(MSG_HttpPrefix \o numberToString(r.status)), <<>>)
    ELSE Returned(r.body, <<FALSE>>)

\* String(err).toLowerCase().includes('limit'), the test of fetchSafe
IsLimitError(err) ==
    includes(toLowerCase(ErrorToString(err)), STR_limit)

----------------------------------------------------------------------------
(* Locations, dates and keys *)

\* Number.prototype.toFixed(d) of a coordinate given in 1/100000 degree:
\* the sign and the magnitude rounded to d decimals (halves go up), which
\* together are the text toFixed prints ("-0.00" keeps its sign)
toFixed(x, d) ==
    LET unit == IF d = 4 THEN 10 ELSE 1000
        mag == IF x < 0 THEN 0 - x ELSE x
    IN [neg |-> x < 0, n |-> (mag + unit \div 2) \div unit]

cacheKey(lat, lon, date) == <<toFixed(lat, 4), toFixed(lon, 4), date>>

arrowKey(lat, lng, date) == <<toFixed(lat, 2), toFixed(lng, 2), date>>

\* parseFloat(x.toFixed(2)), in 1/100000 degree
parseFloatFixed2(x) ==
    LET f == toFixed(x, 2) IN IF f.neg THEN 0 - f.n * 1000 ELSE f.n * 1000

LON == 0 - 7938320
P1 == [lat |-> 4365321, lon |-> LON]
P2 == [lat |-> 4365324, lon |-> LON]   \* the 4-decimal key of P1
P3 == [lat |-> 4365326, lon |-> LON]   \* another 4-decimal key, the 2-decimal key of P1
P4 == [lat |-> 4371200, lon |-> LON]   \* another 2-decimal key

Points == {P1, P2, P3}
GridPoints == {P1, P3, P4}
Dates == {"2026-02-19"}

----------------------------------------------------------------------------
(* Maps *)

MapHas(m, k) == k \in DOMAIN m
MapSet(m, k, v) == [x \in DOMAIN m \cup {k} |-> IF x = k THEN v ELSE m[x]]
MapDelete(m, k) == [x \in DOMAIN m \ {k} |-> m[x]]
EmptyMap == [x \in {} |-> 0]

----------------------------------------------------------------------------
(* fetchWindForPoint *)

\* a promise handed to a caller: id = 0 is a promise already fulfilled with
\* val, id > 0 is the promise of request id
Resolved(val) == [id |-> 0, val |-> val]
PromiseOf(id) == [id |-> id, val |-> <<>>]

NewRequest(path, key, lat, lon) ==
    [path |-> path, key |-> key, lat |-> lat, lon |-> lon,
     st |-> "pending", val |-> <<>>, err |-> NoError]

\* if (cache.has(key))
PointCacheHit_AlwaysMiss(c, key) == FALSE
PointCacheHit(c, key) == MapHas(c, key)

\* if (inflight.has(key))
PointInflightHit_NeverJoin(inf, key) == FALSE
PointInflightHit(inf, key) == MapHas(inf, key)

\* inflight.set(key, p)
PointRegister_Forgets(inf, key, id) == inf
PointRegister(inf, key, id) == MapSet(inf, key, id)

\* return inflight.get(key)!
PointJoin_ReturnsCacheGet(inf, key) == Resolved(<<>>)
PointJoin(inf, key) == PromiseOf(inf[key])

\* the synchronous part of fetchWindForPoint(lat, lon, date) run on the
\* state s = [cache, inflight, reqs]: the state it leaves, the promise it
\* returns and the branch it logs ("hit", "join" or "new")
fetchWindForPoint(s, lat, lon, date) ==
    LET key == cacheKey(lat, lon, date) IN
    IF PointCacheHit(s.cache, key)
    THEN [s |-> s, ret |-> Resolved(s.cache[key]), via |-> "hit"]
    ELSE IF PointInflightHit(s.inflight, key)
    THEN [s |-> s, ret |-> PointJoin(s.inflight, key), via |-> "join"]
    ELSE LET id == Len(s.reqs) + 1 IN
         [s |-> [cache |-> s.cache,
                 inflight |-> PointRegister(s.inflight, key, id),
                 reqs |-> Append(s.reqs, NewRequest("point", key, lat, lon))],
          ret |-> PromiseOf(id), via |-> "new"]

\* Math.round(x * 10) / 10 of a speed in 1/100 km/h, in 1/10 km/h, and
\* Math.round(x) of a direction in 1/10 degree, in degrees
MathRound10(x) == (x + 5) \div 10

\* the .then((json) => ...) of fetchWindForPoint up to the length test
DecodePoint(json) ==
    IF json.isNull
    THEN [threw |-> TRUE, err |-> MkTypeError(MSG_NullHourly), entries |-> <<>>]
    ELSE IF ~json.hourly.present
    THEN [threw |-> TRUE, err |-> MkTypeError(MSG_UndefTime), entries |-> <<>>]
    ELSE LET h == json.hourly
             entries == [i \in 1..Len(h.time) |->
                            [time |-> h.time[i],
                             speed_kmh |-> MathRound10(h.windspeed_10m[i]),
                             direction_deg |-> MathRound10(h.winddirection_10m[i])]]
         IN IF Len(entries) = 0
            THEN [threw |-> TRUE, err |-> MkError(MSG_NoWindData), entries |-> <<>>]
            ELSE [threw |-> FALSE, err |-> NoError, entries |-> entries]

\* cache.set(key, entries); inflight.delete(key)
PointThen(s, key, entries) ==
    [cache |-> MapSet(s.cache, key, entries),
     inflight |-> MapDelete(s.inflight, key)]

\* .catch((err) => { inflight.delete(key); throw err; })
PointCatch_KeepsMarker(s, key) == [cache |-> s.cache, inflight |-> s.inflight]
PointCatch(s, key) ==
    [cache |-> s.cache, inflight |-> MapDelete(s.inflight, key)]

\* the promise chain of fetchWindForPoint run on the outcome h of
\* handleOpenMeteoResponse: the maps it leaves and how p settles
SettlePoint(s, key, h) ==
    LET dec == IF h.threw THEN [threw |-> TRUE, err |-> h.err, entries |-> <<>>]
               ELSE DecodePoint(h.json)
    IN IF dec.threw
       THEN [maps |-> PointCatch(s, key), st |-> "rejected",
             val |-> <<>>, err |-> dec.err]
       ELSE [maps |-> PointThen(s, key, dec.entries), st |-> "fulfilled",
             val |-> dec.entries, err |-> NoError]

----------------------------------------------------------------------------
(* loadArrowPoint *)

ArrowNull == [null |-> TRUE, speed_kmh |-> 0, direction_deg |-> 0]
ArrowEntry(speed, dir) == [null |-> FALSE, speed_kmh |-> speed, direction_deg |-> dir]

\* new Array(24).fill(null)
AllNull_Short == [i \in 1..(HOURS - 1) |-> ArrowNull]
AllNull == [i \in 1..HOURS |-> ArrowNull]

\* if (arrowCache.has(key)) return;
ArrowCacheHit_AlwaysMiss(c, key) == FALSE
ArrowCacheHit(c, key) == MapHas(c, key)

\* if (arrowInflight.has(key)) return arrowInflight.get(key);
ArrowInflightHit_NeverJoin(f, key) == FALSE
ArrowInflightHit(f, key) == MapHas(f, key)

\* the synchronous part of loadArrowPoint(lat, lng, date) run on the state
\* s = [cache, inflight, reqs] of the arrow maps
loadArrowPoint(s, lat, lng, date) ==
    LET key == arrowKey(lat, lng, date) IN
    IF ArrowCacheHit(s.cache, key)
    THEN [s |-> s, ret |-> Resolved(<<>>), via |-> "hit"]
    ELSE IF ArrowInflightHit(s.inflight, key)
    THEN [s |-> s, ret |-> PromiseOf(s.inflight[key]), via |-> "join"]
    ELSE LET id == Len(s.reqs) + 1 IN
         [s |-> [cache |-> s.cache,
                 inflight |-> MapSet(s.inflight, key, id),
                 reqs |-> Append(s.reqs,
                     NewRequest("arrow", key, parseFloatFixed2(lat),
                                parseFloatFixed2(lng)))],
          ret |-> PromiseOf(id), via |-> "new"]

\* the .then((json) => ...) of loadArrowPoint: at most 24 entries, padded
\* with null to 24
DecodeArrow(json) ==
    IF json.isNull
    THEN [threw |-> TRUE, entries |-> <<>>]
    ELSE IF ~json.hourly.present
    THEN [threw |-> TRUE, entries |-> <<>>]
    ELSE LET h == json.hourly IN
         [threw |-> FALSE,
          entries |-> [i \in 1..HOURS |->
              IF i <= Len(h.time)
              THEN ArrowEntry(MathRound10(h.windspeed_10m[i]),
                              MathRound10(h.winddirection_10m[i]))
              ELSE ArrowNull]]

\* .catch(() => { arrowCache.set(key, new Array(24).fill(null)); })
ArrowCatch_Skips(c, key) == c
ArrowCatch(c, key) == MapSet(c, key, AllNull)

\* the promise chain of loadArrowPoint run on the outcome h of
\* handleOpenMeteoResponse; p is always fulfilled
SettleArrow(s, key, h) ==
    LET dec == IF h.threw THEN [threw |-> TRUE, entries |-> <<>>]
               ELSE DecodeArrow(h.json)
    IN [maps |-> [cache |-> IF dec.threw THEN ArrowCatch(s.cache, key)
                            ELSE MapSet(s.cache, key, dec.entries),
                  inflight |-> MapDelete(s.inflight, key)],
        st |-> "fulfilled", val |-> <<>>, err |-> NoError]

----------------------------------------------------------------------------
(* State *)

\* responses the provider gives in the cache specifications
RESP_Day == MkResponse(200, ObjectBody(FALSE, FALSE, <<>>, MkHourly(HOURS, 1)))
RESP_OneHour == MkResponse(200, ObjectBody(FALSE, FALSE, <<>>, MkHourly(1, 2)))
RESP_ExtraHour == MkResponse(200, ObjectBody(FALSE, FALSE, <<>>, MkHourly(HOURS + 1, 2)))
RESP_NoHours == MkResponse(200, ObjectBody(FALSE, FALSE, <<>>, MkHourly(0, 1)))
RESP_429 == MkResponse(HTTP_TOO_MANY, TextBody)
RESP_LimitBody == MkResponse(200, ObjectBody(TRUE, TRUE, REASON_HourlyLimit, NoHourly))
RESP_500 == MkResponse(500, TextBody)
RESP_Text == MkResponse(200, TextBody)

ProviderResponses ==
    {RESP_Day, RESP_OneHour, RESP_ExtraHour, RESP_NoHours,
     RESP_429, RESP_LimitBody, RESP_500, RESP_Text}

NotHandled ==
    [req |-> 0, seen |-> FALSE, resp |-> RESP_Text, out |-> Returned(NullBody, <<>>)]

IdlePool ==
    [running |-> FALSE, items |-> <<>>, date |-> "", concurrency |-> 0,
     next |-> 0, workers |-> <<>>, results |-> <<>>, fetches |-> <<>>,
     settled |-> "no", cancelled |-> FALSE, delivered |-> FALSE]

\* one run of the useWindData effect: the promise it waits for, its
\* `cancelled` flag and whether its then / catch callback has run
NoRun ==
    [active |-> FALSE, ret |-> [id |-> 0, val |-> <<>>],
     cancelled |-> FALSE, delivered |-> FALSE]

\* no component is mounted
IdleHook ==
    [multi |-> [mounted |-> FALSE, effects |-> 0, points |-> <<>>,
                allData |-> <<>>, loading |-> FALSE, error |-> NoError,
                old |-> IdlePool],
     single |-> [mounted |-> FALSE, effects |-> 0, point |-> [lat |-> 0, lon |-> 0],
                 hourlyData |-> <<>>,
                 isNull |-> TRUE, loading |-> FALSE, error |-> <<>>,
                 cur |-> NoRun, old |-> NoRun]]

\* the route layer of the application: the arguments the recolor effect
\* passes to buildSegmentCollection, the data it gave to the route source, and
\* the Maps the last call built
NoScoring ==
    [calls |-> 0, coords |-> <<>>, samplePoints |-> <<>>, allData |-> <<>>,
     hourIndex |-> 0, elevations |-> <<>>, elevationOn |-> TRUE, windOn |-> FALSE,
     features |-> <<>>,
     maps |-> [edgeCounts |-> EmptyMap, edgeVisited |-> EmptyMap]]
\* one call of refreshArrows: its grid, the fetchedDate of its closure, its
\* pooled(...) and the loadArrowPoint calls pooled has made
NoRefresh ==
    [running |-> FALSE, grid |-> <<>>, date |-> <<>>, next |-> 0,
     workers |-> <<>>, settled |-> FALSE, log |-> <<>>]

\* the arrow layer of the application: the calls of refreshArrows, the grid in
\* arrowGridRef, fetchedDate, hourIndex, the data of the arrow source, the
\* visibility of the layer, the wind toggle (windOn and windOnRef) with the
\* number of its switches, and the iteration order of arrowCache (the order
\* in which its keys were set)
NoArrows ==
    [calls |-> 0, runs |-> [r \in 1..MaxRefresh |-> NoRefresh],
     grid |-> <<>>, date |-> <<>>, hourIndex |-> 0,
     source |-> <<>>, visible |-> FALSE, windOn |-> TRUE, toggles |-> 0,
     order |-> <<>>]

Init ==
    /\ cache = EmptyMap
    /\ inflight = EmptyMap
    /\ arrowCache = EmptyMap
    /\ arrowInflight = EmptyMap
    /\ reqs = <<>>
    /\ calls = <<>>
    /\ handled = NotHandled
    /\ pool = IdlePool
    /\ hook = IdleHook
    /\ scoring = NoScoring
    /\ arrows = NoArrows

PointState == [cache |-> cache, inflight |-> inflight, reqs |-> reqs]
ArrowState == [cache |-> arrowCache, inflight |-> arrowInflight, reqs |-> reqs]

\* ids of the requests of a path that are outstanding for a key
Outstanding(rs, path, key) ==
    {i \in DOMAIN rs : rs[i].path = path /\ rs[i].key = key /\ rs[i].st = "pending"}

\* how the promise a caller holds has settled
PromiseState(rs, ret) ==
    IF ret.id = 0
    THEN [st |-> "fulfilled", val |-> ret.val, err |-> NoError]
    ELSE [st |-> rs[ret.id].st, val |-> rs[ret.id].val, err |-> rs[ret.id].err]

----------------------------------------------------------------------------
(* Actions of the cache *)

\* a caller runs fetchWindForPoint(p.lat, p.lon, date)
FetchWindForPoint(p, date) ==
    /\ Len(calls) < MaxCalls
    /\ LET r == fetchWindForPoint(PointState, p.lat, p.lon, date)
           key == cacheKey(p.lat, p.lon, date)
           out == Outstanding(reqs, "point", key)
       IN /\ cache' = r.s.cache
          /\ inflight' = r.s.inflight
          /\ reqs' = r.s.reqs
          /\ calls' = Append(calls,
                [fn |-> "fetchWindForPoint", key |-> key, via |-> r.via,
                 ret |-> r.ret,
                 joined |-> IF out = {} THEN 0 ELSE CHOOSE i \in out : TRUE])
    /\ UNCHANGED <<arrowCache, arrowInflight, handled, pool, appVars>>

\* a caller runs loadArrowPoint(p.lat, p.lon, date)
LoadArrowPoint(p, date) ==
    /\ Len(calls) < MaxCalls
    /\ LET r == loadArrowPoint(ArrowState, p.lat, p.lon, date)
           key == arrowKey(p.lat, p.lon, date)
           out == Outstanding(reqs, "arrow", key)
       IN /\ arrowCache' = r.s.cache
          /\ arrowInflight' = r.s.inflight
          /\ reqs' = r.s.reqs
          /\ calls' = Append(calls,
                [fn |-> "loadArrowPoint", key |-> key, via |-> r.via,
                 ret |-> r.ret,
                 joined |-> IF out = {} THEN 0 ELSE CHOOSE i \in out : TRUE])
    /\ UNCHANGED <<cache, inflight, handled, pool, appVars>>

\* request i settles with the outcome h of the response handler (or of
\* fetch itself): the promise chain of its path runs
Settle(i, h) ==
    IF reqs[i].path = "point"
    THEN LET r == SettlePoint(PointState, reqs[i].key, h) IN
         /\ cache' = r.maps.cache
         /\ inflight' = r.maps.inflight
         /\ reqs' = [reqs EXCEPT ![i].st = r.st, ![i].val = r.val, ![i].err = r.err]
         /\ UNCHANGED <<arrowCache, arrowInflight>>
    ELSE LET r == SettleArrow(ArrowState, reqs[i].key, h) IN
         /\ arrowCache' = r.maps.cache
         /\ arrowInflight' = r.maps.inflight
         /\ reqs' = [reqs EXCEPT ![i].st = r.st, ![i].val = r.val, ![i].err = r.err]
         /\ UNCHANGED <<cache, inflight>>

\* the provider answers request i with response r
Respond(i, r) ==
    /\ i \in DOMAIN reqs
    /\ reqs[i].st = "pending"
    /\ LET h == handleOpenMeteoResponse(r) IN
       /\ handled' = [req |-> i, seen |-> TRUE, resp |-> r, out |-> h]
       /\ Settle(i, h)
    /\ UNCHANGED <<calls, pool, appVars>>

\* fetch() of request i rejects: no response reaches the handler
NetworkFail(i) ==
    /\ i \in DOMAIN reqs
    /\ reqs[i].st = "pending"
    /\ Settle(i, Thrown(MkTypeError(MSG_FailedToFetch), <<>>))
    /\ UNCHANGED <<calls, handled, pool, appVars>>

Next ==
    \/ \E p \in Points, d \in Dates : FetchWindForPoint(p, d)
    \/ \E p \in GridPoints, d \in Dates : LoadArrowPoint(p, d)
    \/ \E i \in DOMAIN reqs, r \in ProviderResponses : Respond(i, r)
    \/ \E i \in DOMAIN reqs : NetworkFail(i)

Spec == Init /\ [][Next]_vars

----------------------------------------------------------------------------
(* useMultiPointWindData and pooledMap *)

\* the points a batch is made of: item i of every batch
BatchPoints == <<P1, P3, P4, P2>>
ItemAt(i) == BatchPoints[((i - 1) % Len(BatchPoints)) + 1]

BatchResponses == {RESP_Day, RESP_429, RESP_NoHours}

Min(a, b) == IF a < b THEN a ELSE b

\* Array.from({ length: Math.min(concurrency, items.length) }, worker)
WorkerCount_OnePerItem(concurrency, n) == n
WorkerCount(concurrency, n) == Min(concurrency, n)

EmptySlot == [set |-> FALSE, null |-> FALSE, series |-> <<>>]
NullSlot == [set |-> TRUE, null |-> TRUE, series |-> <<>>]
SeriesSlot(v) == [set |-> TRUE, null |-> FALSE, series |-> v]

\* fetchSafe whose catch logs and returns nothing: the slot holds undefined
fetchSafe_ReturnsUndefined(ps) ==
    IF ps.st = "fulfilled" THEN SeriesSlot(ps.val) ELSE SeriesSlot(<<>>)

\* what the promise of fetchSafe(p) resolves to once fetchWindForPoint has
\* settled as ps: the series, or null after any failure.  As fetchSafe never
\* rejects, the catch of the pooledMap worker (which rethrows) never runs.
fetchSafe(ps) == IF ps.st = "fulfilled" THEN SeriesSlot(ps.val) ELSE NullSlot

\* results.push(v): the results in the order of completion
StoreResult_Push(results, i, v) ==
    LET free == {j \in DOMAIN results : ~results[j].set}
        j == CHOOSE x \in free : \A y \in free : x <= y
    IN [results EXCEPT ![j] = v]

\* results[i] = await fn(items[i])
StoreResult(results, i, v) == [results EXCEPT ![i] = v]

\* worker w from its loop test to its next await, on st = [s, pool] where s
\* is the state of the point maps: it takes item next++ and calls fn, or
\* finds no item left and returns
WorkerLoop_SkipsLast(st, w) ==
    IF st.pool.next < Len(st.pool.items) - 1
    THEN LET i == st.pool.next + 1
             item == st.pool.items[i]
             r == fetchWindForPoint(st.s, item.lat, item.lon, st.pool.date)
         IN [s |-> r.s,
             pool |-> [st.pool EXCEPT !.next = i,
                                      !.workers[w] = [pc |-> "await", i |-> i],
                                      !.fetches = Append(@, r.ret)]]
    ELSE [s |-> st.s, pool |-> [st.pool EXCEPT !.workers[w] = [pc |-> "done", i |-> 0]]]
WorkerLoop(st, w) ==
    IF st.pool.next < Len(st.pool.items)
    THEN LET i == st.pool.next + 1
             item == st.pool.items[i]
             r == fetchWindForPoint(st.s, item.lat, item.lon, st.pool.date)
         IN [s |-> r.s,
             pool |-> [st.pool EXCEPT !.next = i,
                                      !.workers[w] = [pc |-> "await", i |-> i],
                                      !.fetches = Append(@, r.ret)]]
    ELSE [s |-> st.s, pool |-> [st.pool EXCEPT !.workers[w] = [pc |-> "done", i |-> 0]]]

\* the workers w..k start one after the other, each running to its first await
RECURSIVE StartWorkers(_, _, _)
StartWorkers(st, w, k) ==
    IF w > k THEN st ELSE StartWorkers(WorkerLoop(st, w), w + 1, k)

\* await Promise.all(workers) is over once every worker has returned
PoolSettled(p) ==
    IF \A w \in DOMAIN p.workers : p.workers[w].pc = "done"
    THEN [p EXCEPT !.settled = "fulfilled"] ELSE p

\* the effect of useMultiPointWindData runs for the first n batch points:
\* with a point missing from the cache it calls pooledMap(points, fetchSafe,
\* concurrency) (the hook passes 3), which starts its workers
RunEffect(n, concurrency) ==
    /\ ~pool.running
    /\ pool.settled = "no"
    /\ LET items == [i \in 1..n |-> ItemAt(i)]
           date == CHOOSE d \in Dates : TRUE
           anyMissing == \E i \in 1..n :
               ~MapHas(cache, cacheKey(items[i].lat, items[i].lon, date))
           k == WorkerCount(concurrency, n)
           p0 == [running |-> TRUE, items |-> items, date |-> date,
                  concurrency |-> concurrency, next |-> 0,
                  workers |-> [w \in 1..k |-> [pc |-> "new", i |-> 0]],
                  results |-> [i \in 1..n |-> EmptySlot],
                  fetches |-> <<>>, settled |-> "no",
                  cancelled |-> FALSE, delivered |-> FALSE]
           st == StartWorkers([s |-> PointState, pool |-> p0], 1, k)
       IN /\ anyMissing
          /\ cache' = st.s.cache
          /\ inflight' = st.s.inflight
          /\ reqs' = st.s.reqs
          /\ pool' = PoolSettled(st.pool)
    /\ UNCHANGED <<arrowCache, arrowInflight, calls, handled, appVars>>

\* worker w resumes after its await: it stores the result of its item and
\* goes round its loop
WorkerResume(w) ==
    /\ pool.running
    /\ w \in DOMAIN pool.workers
    /\ pool.workers[w].pc = "await"
    /\ LET i == pool.workers[w].i
           ps == PromiseState(reqs, pool.fetches[i])
       IN /\ ps.st # "pending"
          /\ LET p1 == [pool EXCEPT !.results = StoreResult(@, i, fetchSafe(ps))]
                 st == WorkerLoop([s |-> PointState, pool |-> p1], w)
             IN /\ cache' = st.s.cache
                /\ inflight' = st.s.inflight
                /\ reqs' = st.s.reqs
                /\ pool' = PoolSettled(st.pool)
    /\ UNCHANGED <<arrowCache, arrowInflight, calls, handled, appVars>>

NextBatch ==
    \/ \E n \in 1..MaxBatch, c \in 1..MaxConcurrency : RunEffect(n, c)
    \/ \E w \in 1..(MaxBatch + 1) : WorkerResume(w)
    \/ \E i \in DOMAIN reqs, r \in BatchResponses : Respond(i, r)

SpecBatch == Init /\ [][NextBatch]_vars

\* the fetches of the batch whose promise is pending
OutstandingFetches ==
    {i \in DOMAIN pool.fetches : PromiseState(reqs, pool.fetches[i]).st = "pending"}

----------------------------------------------------------------------------
(* The response handler under every kind of response: one caller fetches   *)
(* P1 again after each failure                                             *)

Statuses == {200, HTTP_TOO_MANY, 500}
Reasons ==
    {[isStr |-> FALSE, text |-> <<>>], [isStr |-> TRUE, text |-> <<>>],
     [isStr |-> TRUE, text |-> REASON_HourlyLimit],
     [isStr |-> TRUE, text |-> REASON_DailyLIMIT],
     [isStr |-> TRUE, text |-> REASON_RateLimited],
     [isStr |-> TRUE, text |-> REASON_InvalidDate]}
Hourlies == {NoHourly, MkHourly(0, 1), MkHourly(HOURS, 1)}
Bodies ==
    {TextBody, NullBody} \cup
    {ObjectBody(e, rs.isStr, rs.text, h) : e \in BOOLEAN, rs \in Reasons, h \in Hourlies}
AllResponses == {MkResponse(st, b) : st \in Statuses, b \in Bodies}

NextResp ==
    \/ \E d \in Dates : FetchWindForPoint(P1, d)
    \/ \E i \in DOMAIN reqs, r \in AllResponses : Respond(i, r)

SpecResp == Init /\ [][NextResp]_vars

----------------------------------------------------------------------------
(* The hooks useWindData and useMultiPointWindData in their components *)

HookResponses == {RESP_Day, RESP_429}
SinglePoints == {P1, P3}

\* if (!cancelled)
ShouldSetState_Always(cancelled) == TRUE
ShouldSetState(cancelled) == ~cancelled

\* points.map(({ lat, lon }) => cache.get(cacheKey(lat, lon, date)) ?? null)
FromCache(c, items, date) ==
    [i \in DOMAIN items |->
        LET key == cacheKey(items[i].lat, items[i].lon, date) IN
        IF MapHas(c, key) THEN SeriesSlot(c[key]) ELSE NullSlot]

\* pooledMap(items, fetchSafe, concurrency) up to its await, on the state s
\* of the point maps
StartPooledMap(s, items, date, concurrency) ==
    LET k == WorkerCount(concurrency, Len(items))
        p0 == [running |-> TRUE, items |-> items, date |-> date,
               concurrency |-> concurrency, next |-> 0,
               workers |-> [w \in 1..k |-> [pc |-> "new", i |-> 0]],
               results |-> [i \in DOMAIN items |-> EmptySlot],
               fetches |-> <<>>, settled |-> "no",
               cancelled |-> FALSE, delivered |-> FALSE]
        st == StartWorkers([s |-> s, pool |-> p0], 1, k)
    IN [s |-> st.s, pool |-> PoolSettled(st.pool)]

\* the cleanup of an effect run that waits for its pooledMap
CancelPool(p) ==
    IF p.running /\ ~p.delivered THEN [p EXCEPT !.cancelled = TRUE] ELSE p

\* the component of useMultiPointWindData is mounted, or rendered again
\* with other points: the cleanup of the previous run sets its `cancelled`,
\* whose pooledMap goes on, and the effect runs for the first n batch points
MultiEffect(n) ==
    LET m == hook.multi
        items == [i \in 1..n |-> ItemAt(i)]
        date == CHOOSE d \in Dates : TRUE
        fromCache == FromCache(cache, items, date)
        anyMissing == \E i \in DOMAIN fromCache : fromCache[i].null
        st == IF anyMissing
              THEN StartPooledMap(PointState, items, date, HOOK_CONCURRENCY)
              ELSE [s |-> PointState, pool |-> IdlePool]
    IN /\ m.effects + hook.single.effects < MaxEffects
       /\ ~m.mounted \/ items # m.points
       /\ (pool.running /\ ~pool.delivered) => (~m.old.running \/ m.old.delivered)
       /\ hook' = [hook EXCEPT !.multi =
              [mounted |-> TRUE, effects |-> m.effects + 1, points |-> items,
               allData |-> fromCache, loading |-> anyMissing, error |-> NoError,
               old |-> IF pool.running /\ ~pool.delivered
                       THEN CancelPool(pool) ELSE m.old]]
       /\ pool' = st.pool
       /\ cache' = st.s.cache
       /\ inflight' = st.s.inflight
       /\ reqs' = st.s.reqs
       /\ UNCHANGED <<arrowCache, arrowInflight, calls, handled, scoring, arrows>>

\* the component of useMultiPointWindData is unmounted: the cleanup runs
MultiUnmount ==
    /\ hook.multi.mounted
    /\ hook' = [hook EXCEPT !.multi.mounted = FALSE]
    /\ pool' = CancelPool(pool)
    /\ UNCHANGED <<cache, inflight, arrowCache, arrowInflight, reqs, calls,
                   handled, scoring, arrows>>

\* .then((results) => { if (!cancelled) { setAllData(results); setLoading(false); } })
ThenMulti(m, p) ==
    IF ShouldSetState(p.cancelled)
    THEN [m EXCEPT !.allData = p.results, !.loading = FALSE]
    ELSE m

\* the then callback of the pooledMap of the latest effect run
PoolThen ==
    /\ pool.running /\ pool.settled = "fulfilled" /\ ~pool.delivered
    /\ hook' = [hook EXCEPT !.multi = ThenMulti(@, pool)]
    /\ pool' = [pool EXCEPT !.delivered = TRUE]
    /\ UNCHANGED <<cache, inflight, arrowCache, arrowInflight, reqs, calls,
                   handled, scoring, arrows>>

\* the then callback of the pooledMap of the run that was cleaned up
OldPoolThen ==
    LET old == hook.multi.old IN
    /\ old.running /\ old.settled = "fulfilled" /\ ~old.delivered
    /\ hook' = [hook EXCEPT
                  !.multi = [ThenMulti(@, old) EXCEPT !.old.delivered = TRUE]]
    /\ UNCHANGED <<cache, inflight, arrowCache, arrowInflight, reqs, calls,
                   handled, pool, scoring, arrows>>

\* a worker of the pooledMap of the run that was cleaned up resumes
OldWorkerResume(w) ==
    LET old == hook.multi.old IN
    /\ old.running
    /\ w \in DOMAIN old.workers
    /\ old.workers[w].pc = "await"
    /\ LET i == old.workers[w].i
           ps == PromiseState(reqs, old.fetches[i])
       IN /\ ps.st # "pending"
          /\ LET p1 == [old EXCEPT !.results = StoreResult(@, i, fetchSafe(ps))]
                 st == WorkerLoop([s |-> PointState, pool |-> p1], w)
             IN /\ cache' = st.s.cache
                /\ inflight' = st.s.inflight
                /\ reqs' = st.s.reqs
                /\ hook' = [hook EXCEPT !.multi.old = PoolSettled(st.pool)]
    /\ UNCHANGED <<arrowCache, arrowInflight, calls, handled, pool, scoring, arrows>>

\* useState(() => ...) of useWindData, then
\* setState(prev => prev.loading ? prev : { ...prev, loading: true, error: null })
SingleRendered(sg, c, key) ==
    LET init == IF sg.mounted THEN sg
                ELSE IF MapHas(c, key)
                THEN [sg EXCEPT !.hourlyData = c[key], !.isNull = FALSE,
                                !.loading = FALSE, !.error = <<>>]
                ELSE [sg EXCEPT !.hourlyData = <<>>, !.isNull = TRUE,
                                !.loading = TRUE, !.error = <<>>]
    IN IF init.loading THEN init
       ELSE [init EXCEPT !.loading = TRUE, !.error = <<>>]

\* the cleanup of a run of the useWindData effect
CancelRun(r) ==
    IF r.active /\ ~r.delivered THEN [r EXCEPT !.cancelled = TRUE] ELSE r

\* the component of useWindData is mounted, or rendered again with another
\* point: the cleanup of the previous run sets its `cancelled` and the effect
\* calls fetchWindForPoint
SingleEffect(pt) ==
    LET sg == hook.single
        date == CHOOSE d \in Dates : TRUE
        key == cacheKey(pt.lat, pt.lon, date)
        r == fetchWindForPoint(PointState, pt.lat, pt.lon, date)
        waiting == sg.cur.active /\ ~sg.cur.delivered
    IN /\ hook.multi.effects + sg.effects < MaxEffects
       /\ ~sg.mounted \/ pt # sg.point
       /\ waiting => (~sg.old.active \/ sg.old.delivered)
       /\ hook' = [hook EXCEPT !.single =
              [SingleRendered(sg, cache, key) EXCEPT
                  !.mounted = TRUE, !.effects = sg.effects + 1, !.point = pt,
                  !.cur = [active |-> TRUE, ret |-> r.ret,
                           cancelled |-> FALSE, delivered |-> FALSE],
                  !.old = IF waiting THEN CancelRun(sg.cur) ELSE sg.old]]
       /\ cache' = r.s.cache
       /\ inflight' = r.s.inflight
       /\ reqs' = r.s.reqs
       /\ UNCHANGED <<arrowCache, arrowInflight, calls, handled, pool, scoring, arrows>>

\* the component of useWindData is unmounted: the cleanup runs
SingleUnmount ==
    /\ hook.single.mounted
    /\ hook' = [hook EXCEPT !.single.mounted = FALSE,
                            !.single.cur = CancelRun(@)]
    /\ UNCHANGED <<cache, inflight, arrowCache, arrowInflight, reqs, calls,
                   handled, pool, scoring, arrows>>

\* the then / catch callbacks of useWindData for a run whose promise has
\* settled as ps
ThenSingle(sg, run, ps) ==
    IF ~ShouldSetState(run.cancelled) THEN sg
    ELSE IF ps.st = "fulfilled"
    THEN [sg EXCEPT !.hourlyData = ps.val, !.isNull = FALSE,
                    !.loading = FALSE, !.error = <<>>]
    ELSE [sg EXCEPT !.hourlyData = <<>>, !.isNull = TRUE,
                    !.loading = FALSE, !.error = ErrorToString(ps.err)]

\* the callback of the latest run (slot "cur") or of the run that was
\* cleaned up (slot "old") runs
SingleThen(slot) ==
    LET run == hook.single[slot]
        ps == PromiseState(reqs, run.ret)
    IN /\ run.active /\ ~run.delivered
       /\ ps.st # "pending"
       /\ hook' = [hook EXCEPT !.single =
              [ThenSingle(@, run, ps) EXCEPT ![slot].delivered = TRUE]]
       /\ UNCHANGED <<cache, inflight, arrowCache, arrowInflight, reqs, calls,
                      handled, pool, scoring, arrows>>

NextHook ==
    \/ \E n \in 1..MaxHookPoints : MultiEffect(n)
    \/ MultiUnmount
    \/ PoolThen
    \/ OldPoolThen
    \/ \E w \in 1..HOOK_CONCURRENCY : WorkerResume(w)
    \/ \E w \in 1..HOOK_CONCURRENCY : OldWorkerResume(w)
    \/ \E pt \in SinglePoints : SingleEffect(pt)
    \/ SingleUnmount
    \/ \E slot \in {"cur", "old"} : SingleThen(slot)
    \/ \E i \in DOMAIN reqs, r \in HookResponses : Respond(i, r)

SpecHook == Init /\ [][NextHook]_vars

----------------------------------------------------------------------------
(* The wind arrows: buildGridPoints, pooled, refreshArrows, buildArrowsGeoJSON *)

\* dates as the characters of YYYY-MM-DD
DATE_19 == <<"2", "0", "2", "6", "-", "0", "2", "-", "1", "9">>
DATE_20 == <<"2", "0", "2", "6", "-", "0", "2", "-", "2", "0">>
ArrowDates == {DATE_19, DATE_20}
HourIndexes == {0, 1}

\* what the provider has for the place and day of an arrow request: hourly
\* data, or a server error.  The data differ from key to key, and east of
\* 79.375 W they stop after the first hour of the day
ArrowAnswers == {"data", "error"}
KeyWeather(key) ==
    1 + 2 * (key[1].n % 2) + (key[2].n % 2) + (IF key[3] = DATE_20 THEN 4 ELSE 0)
KeyHours(key) == IF key[2].n % 2 = 1 THEN 1 ELSE HOURS
ArrowResponseFor(key, answer) ==
    IF answer = "data"
    THEN MkResponse(200, ObjectBody(FALSE, FALSE, <<>>,
                                    MkHourly(KeyHours(key), KeyWeather(key))))
    ELSE RESP_500

\* map.getBounds() and fetchedDate at a call of refreshArrows: a view over
\* two 0.01 degree cells side by side, a view over two cells one above the
\* other, and a view within the cell they share
VIEW_East == [sw |-> [lat |-> 4365200, lng |-> 0 - 7937800],
              ne |-> [lat |-> 4365400, lng |-> 0 - 7936800]]
VIEW_North == [sw |-> [lat |-> 4365200, lng |-> 0 - 7937800],
               ne |-> [lat |-> 4366200, lng |-> 0 - 7937600]]
VIEW_Near == [sw |-> [lat |-> 4365200, lng |-> 0 - 7937800],
              ne |-> [lat |-> 4365400, lng |-> 0 - 7937600]]
RefreshInputs ==
    {[view |-> VIEW_East, date |-> DATE_19], [view |-> VIEW_North, date |-> DATE_19],
     [view |-> VIEW_Near, date |-> DATE_20]}

\* buildGridPoints(bounds, cols, rows): row by row from the south-west
\* corner. r / (rows - 1) and c / (cols - 1) are 0 / 0 = NaN for one row or
\* one column; nan names the coordinates of a point that are NaN
buildGridPoints(bounds, cols, rows) ==
    [n \in 1..(rows * cols) |->
        LET r == (n - 1) \div cols
            c == (n - 1) % cols
        IN [lat |-> IF rows = 1 THEN 0
                    ELSE bounds.sw.lat
                             + ((bounds.ne.lat - bounds.sw.lat) * r) \div (rows - 1),
            lng |-> IF cols = 1 THEN 0
                    ELSE bounds.sw.lng
                             + ((bounds.ne.lng - bounds.sw.lng) * c) \div (cols - 1),
            nan |-> (IF rows = 1 THEN {"lat"} ELSE {})
                        \cup (IF cols = 1 THEN {"lng"} ELSE {})]]

\* Math.min(limit, fns.length)
PooledWorkerCount_OnePerFn(limit, n) == n
PooledWorkerCount(limit, n) == Min(limit, n)

\* worker w of pooled from its loop test to its next await, on st = [s, run]
\* where s is the state of the arrow maps: while (next < fns.length)
\* await fns[next++](), and fns[i] calls loadArrowPoint for grid point i
PooledLoop(st, w) ==
    IF st.run.next < Len(st.run.grid)
    THEN LET i == st.run.next + 1
             pt == st.run.grid[i]
             r == loadArrowPoint(st.s, pt.lat, pt.lng, st.run.date)
         IN [s |-> r.s,
             run |-> [st.run EXCEPT !.next = i,
                         !.workers[w] = [pc |-> "await", i |-> i, ret |-> r.ret],
                         !.log = Append(@, [key |-> arrowKey(pt.lat, pt.lng, st.run.date),
                                            via |-> r.via, id |-> r.ret.id])]]
    ELSE [s |-> st.s,
          run |-> [st.run EXCEPT !.workers[w] =
                      [pc |-> "done", i |-> 0, ret |-> Resolved(<<>>)]]]

\* the workers w..k of pooled start one after the other, each running to its
\* first await
RECURSIVE StartPooled(_, _, _)
StartPooled(st, w, k) ==
    IF w > k THEN st ELSE StartPooled(PooledLoop(st, w), w + 1, k)

\* await Promise.all(workers) of pooled is over once every worker has returned
PooledSettled(run) ==
    IF \A w \in DOMAIN run.workers : run.workers[w].pc = "done"
    THEN [run EXCEPT !.settled = TRUE] ELSE run

\* Number(s) of a part s of a key written by toFixed(2), in 1/100000 degree
KeyNumber(f) == IF f.neg THEN 0 - f.n * 1000 ELSE f.n * 1000

\* k.endsWith(date): the dates hold no comma, so the test is on the date part
\* of the key
RECURSIVE IsSuffix(_, _)
IsSuffix(a, b) ==
    IF Len(a) = 0 THEN TRUE
    ELSE IF Len(b) = 0 THEN FALSE
    ELSE /\ a[Len(a)] = b[Len(b)]
         /\ IsSuffix(SubSeq(a, 1, Len(a) - 1), SubSeq(b, 1, Len(b) - 1))
endsWith_AnyDate(k, date) == TRUE
endsWith(k, date) == IsSuffix(date, k[3])

\* arrowCache.get(arrowKey(lat, lng, date))?.[hourIndex] ?? null
getCachedArrow(c, lat, lng, date, hourIndex) ==
    LET key == arrowKey(lat, lng, date) IN
    IF MapHas(c, key) /\ (hourIndex + 1) \in DOMAIN c[key]
    THEN c[key][hourIndex + 1] ELSE ArrowNull

\* if (d < bestDist) { bestDist = d; entry = e; }
Nearer_OrEqual(d, best) == ~best.found \/ d <= best.dist
Nearer(d, best) == ~best.found \/ d < best.dist

\* the fallback loop of buildArrowsGeoJSON over the keys order[j..] of
\* arrowCache, in the order of the Map
RECURSIVE NearestCached(_, _, _, _, _, _, _, _)
NearestCached(c, order, j, lat, lng, date, hourIndex, best) ==
    IF j > Len(order) THEN best
    ELSE LET k == order[j]
             e == IF (hourIndex + 1) \in DOMAIN c[k] THEN c[k][hourIndex + 1]
                  ELSE ArrowNull
             klat == KeyNumber(k[1])
             klng == KeyNumber(k[2])
             d == (klat - lat) * (klat - lat) + (klng - lng) * (klng - lng)
             b == IF ~endsWith(k, date) \/ e.null THEN best
                  ELSE IF Nearer(d, best)
                  THEN [found |-> TRUE, dist |-> d, entry |-> e]
                  ELSE best
         IN NearestCached(c, order, j + 1, lat, lng, date, hourIndex, b)

\* the entry buildArrowsGeoJSON draws for a grid point, null if none
GlyphEntry(c, order, pt, date, hourIndex) ==
    LET own == getCachedArrow(c, pt.lat, pt.lng, date, hourIndex) IN
    IF ~own.null THEN own
    ELSE NearestCached(c, order, 1, pt.lat, pt.lng, date, hourIndex,
                       [found |-> FALSE, dist |-> 0, entry |-> ArrowNull]).entry

\* the feature of a grid point: iconSize = 0.35 + (speedClamped / 60) * 0.75
\* is kept in 1/2400, speed_kmh being in 1/10 km/h
Glyph(pt, entry) ==
    LET speedClamped == Min(IF entry.speed_kmh > 0 THEN entry.speed_kmh ELSE 0, 600) IN
    [coordinates |-> <<pt.lng, pt.lat>>,
     iconRotate |-> (entry.direction_deg + 180) % 360,
     iconSize |-> 840 + 3 * speedClamped,
     speed |-> entry.speed_kmh,
     direction |-> entry.direction_deg]

\* buildArrowsGeoJSON(pts, date, hourIndex) on the arrow cache c iterated in
\* the order `order`: the features of pts[j..], a point without entry skipped
RECURSIVE buildArrowsGeoJSON(_, _, _, _, _, _)
buildArrowsGeoJSON(c, order, pts, j, date, hourIndex) ==
    IF j > Len(pts) THEN <<>>
    ELSE LET entry == GlyphEntry(c, order, pts[j], date, hourIndex)
             rest == buildArrowsGeoJSON(c, order, pts, j + 1, date, hourIndex)
         IN IF entry.null THEN rest ELSE <<Glyph(pts[j], entry)>> \o rest

\* the workers of run r that can resume do so, one after the other, until
\* each waits for an outstanding request or has returned: a worker resumes in
\* a microtask, which runs before the next response or event is handled.
\* st = [s, runs] with s the state of the arrow maps
RECURSIVE DrainRun(_, _)
DrainRun(st, r) ==
    LET run == st.runs[r]
        ready == {w \in DOMAIN run.workers :
                     /\ run.workers[w].pc = "await"
                     /\ PromiseState(st.s.reqs, run.workers[w].ret).st # "pending"}
    IN IF ~run.running \/ ready = {} THEN st
       ELSE LET w == CHOOSE x \in ready : \A y \in ready : x <= y
                n == PooledLoop([s |-> st.s, run |-> run], w)
            IN DrainRun([s |-> n.s,
                         runs |-> [st.runs EXCEPT ![r] = PooledSettled(n.run)]], r)

\* the runs r.. in turn
RECURSIVE DrainRuns(_, _)
DrainRuns(st, r) ==
    IF r > Len(st.runs) THEN st ELSE DrainRuns(DrainRun(st, r), r + 1)

\* refreshArrows() past its test of windOnRef, with the map showing view v
\* and fetchedDate d, up to the await of pooled, from the layer state a: the
\* grid is built and kept in arrowGridRef, and pooled starts its workers
StartRefresh(a, v, d) ==
    LET r == a.calls + 1
        grid == buildGridPoints(v, GridCols, GridRows)
        k == PooledWorkerCount(ARROW_CONCURRENCY, Len(grid))
        run0 == [running |-> TRUE, grid |-> grid, date |-> d, next |-> 0,
                 workers |-> [w \in 1..k |->
                     [pc |-> "new", i |-> 0, ret |-> Resolved(<<>>)]],
                 settled |-> FALSE, log |-> <<>>]
        started == StartPooled([s |-> ArrowState, run |-> run0], 1, k)
        st == DrainRun([s |-> started.s,
                        runs |-> [a.runs EXCEPT ![r] = PooledSettled(started.run)]], r)
    IN /\ a.calls < MaxRefresh
       /\ arrows' = [a EXCEPT !.calls = r, !.runs = st.runs,
                              !.grid = grid, !.date = d]
       /\ arrowCache' = st.s.cache
       /\ arrowInflight' = st.s.inflight
       /\ reqs' = st.s.reqs
       /\ UNCHANGED <<cache, inflight, calls, handled, pool, hook, scoring>>

\* refreshArrows() when the map has moved: if (!windOnRef.current) return
RefreshArrows(v, d) ==
    /\ arrows.windOn
    /\ StartRefresh(arrows, v, d)

\* refreshArrows after its await: src.setData(buildArrowsGeoJSON(grid,
\* fetchedDate, hourIndexRef.current)) and the layer is made visible
RefreshRender(r) ==
    LET run == arrows.runs[r] IN
    /\ run.running /\ run.settled
    /\ arrows' = [arrows EXCEPT
          !.runs[r] = NoRefresh,
          !.source = buildArrowsGeoJSON(arrowCache, arrows.order, run.grid, 1,
                                        run.date, arrows.hourIndex),
          !.visible = TRUE]
    /\ UNCHANGED <<cache, inflight, arrowCache, arrowInflight, reqs, calls,
                   handled, pool, hook, scoring>>

\* the hour slider moves to h: the effect on hourIndex draws the grid of
\* arrowGridRef again, if there is one
SetHourIndex(h) ==
    /\ h # arrows.hourIndex
    /\ arrows' = [arrows EXCEPT
          !.hourIndex = h,
          !.source = IF Len(arrows.grid) = 0 THEN @
                     ELSE buildArrowsGeoJSON(arrowCache, arrows.order, arrows.grid,
                                             1, arrows.date, h)]
    /\ UNCHANGED <<cache, inflight, arrowCache, arrowInflight, reqs, calls,
                   handled, pool, hook, scoring>>

\* the provider answers the arrow request i: the promise chain of
\* loadArrowPoint runs, a key new to arrowCache goes to the end of the Map's
\* order, and the workers that waited for the request go on
ArrowRespond(i, answer) ==
    /\ i \in DOMAIN reqs
    /\ reqs[i].st = "pending"
    /\ reqs[i].path = "arrow"
    /\ LET h == handleOpenMeteoResponse(ArrowResponseFor(reqs[i].key, answer))
           r == SettleArrow(ArrowState, reqs[i].key, h)
           s1 == [cache |-> r.maps.cache, inflight |-> r.maps.inflight,
                  reqs |-> [reqs EXCEPT ![i].st = r.st, ![i].val = r.val,
                                        ![i].err = r.err]]
           st == DrainRuns([s |-> s1, runs |-> arrows.runs], 1)
       IN /\ arrowCache' = st.s.cache
          /\ arrowInflight' = st.s.inflight
          /\ reqs' = st.s.reqs
          /\ arrows' = [arrows EXCEPT
                !.runs = st.runs,
                !.order = IF MapHas(arrowCache, reqs[i].key) THEN @
                          ELSE Append(@, reqs[i].key)]
    /\ UNCHANGED <<cache, inflight, calls, handled, pool, hook, scoring>>

\* the wind toggle is switched: the effect on windOn hides the layer, or
\* shows it and calls refreshArrows
SwitchWind(v, d) ==
    /\ arrows.toggles < MaxToggles
    /\ IF arrows.windOn
       THEN /\ arrows' = [arrows EXCEPT !.toggles = @ + 1, !.windOn = FALSE,
                                        !.visible = FALSE]
            /\ UNCHANGED <<cache, inflight, arrowCache, arrowInflight, reqs, calls,
                           handled, pool, hook, scoring>>
       ELSE StartRefresh([arrows EXCEPT !.toggles = @ + 1, !.windOn = TRUE,
                                        !.visible = TRUE], v, d)

NextArrows ==
    \/ \E x \in RefreshInputs : RefreshArrows(x.view, x.date)
    \/ \E r \in 1..MaxRefresh : RefreshRender(r)
    \/ \E h \in HourIndexes : SetHourIndex(h)
    \/ \E i \in DOMAIN reqs, a \in ArrowAnswers : ArrowRespond(i, a)

SpecArrows == Init /\ [][NextArrows]_vars

\* the arrow layer with its toggle
NextLayer ==
    \/ NextArrows
    \/ \E x \in RefreshInputs : SwitchWind(x.view, x.date)

SpecLayer == Init /\ [][NextLayer]_vars

----------------------------------------------------------------------------
(* Route scoring: buildSegmentCollection and its helpers.                  *)
(* Route coordinates and sample points are in 1/1000000 degree, elevations  *)
(* in metres, distances in millimetres, wind speeds in 1/10 km/h, and       *)
(* headwindRaw, climbPenalty, sufferRaw and grade in 1/1000000.  The        *)
(* routes of the model run along a meridian or along the equator, where     *)
(* computeBearing and haversineMeters have the closed forms used here.      *)

UNIT == 1000000                 \* one, in the unit of sufferRaw and grade
EPSILON == 1                    \* 1e-6 in that unit
GRADE_CLAMP == UNIT \div 2      \* 0.5 in that unit

Abs(x) == IF x < 0 THEN 0 - x ELSE x
Max(a, b) == IF a > b THEN a ELSE b

\* computeBearing(lat1, lng1, lat2, lng2), in degrees: atan2(0, x) is 0 or
\* 180 along a meridian, atan2(y, 0) is +-90 along the equator
computeBearing(lat1, lng1, lat2, lng2) ==
    IF lng1 = lng2
    THEN (IF lat2 >= lat1 THEN 0 ELSE 180)
    ELSE (IF lng2 > lng1 THEN 90 ELSE 270)

\* smallestAngle(a, b)
smallestAngle(a, b) ==
    LET d == Abs(a - b) % 360 IN IF d > 180 THEN 360 - d ELSE d

\* Math.cos((theta * Math.PI) / 180) for theta a multiple of 15 in 0..180,
\* in 1/100000
CosTable ==
    <<100000, 96593, 86603, 70711, 50000, 25882, 0>>
Cos(theta) ==
    IF theta <= 90 THEN CosTable[theta \div 15 + 1]
    ELSE 0 - CosTable[(180 - theta) \div 15 + 1]

\* headwindComponent(bearing, windFromDeg, windSpeedKmh)
headwindComponent_FromIsTo(bearing, windFromDeg, windSpeedKmh) ==
    windSpeedKmh * Cos(smallestAngle(bearing, (windFromDeg + 180) % 360))
headwindComponent(bearing, windFromDeg, windSpeedKmh) ==
    windSpeedKmh * Cos(smallestAngle(bearing, windFromDeg))

\* haversineMeters(lat1, lng1, lat2, lng2), in millimetres: R times the
\* angle, 111194.9 m per degree with R = 6371000
haversineMeters(lat1, lng1, lat2, lng2) ==
    LET angle == IF lng1 = lng2 THEN Abs(lat2 - lat1) ELSE Abs(lng2 - lng1)
    IN (angle * 11119) \div 100

\* nearestSampleIndex(midLat, midLng, pts) from index i on, as a 0-based
\* index; mid2 holds twice the midpoint, and the distances are four times
\* the squared ones
RECURSIVE nearestSampleIndex(_, _, _, _, _)
nearestSampleIndex(mid2Lat, mid2Lng, pts, i, best) ==
    IF i > Len(pts) THEN best.idx
    ELSE LET d == (2 * pts[i].lat - mid2Lat) * (2 * pts[i].lat - mid2Lat)
                  + (2 * pts[i].lon - mid2Lng) * (2 * pts[i].lon - mid2Lng)
         IN nearestSampleIndex(mid2Lat, mid2Lng, pts, i + 1,
                IF ~best.found \/ d < best.d
                THEN [found |-> TRUE, d |-> d, idx |-> i - 1] ELSE best)

\* x.toFixed(5) of a coordinate given in 1/1000000 degree: the sign and the
\* magnitude rounded to 5 decimals, which together are the text toFixed
\* prints ("-0.00000" keeps its sign)
toFixed5(x) == [neg |-> x < 0, n |-> (Abs(x) + 5) \div 10]

\* an order of those texts (the code orders the two strings; any total
\* order gives each pair of points one key)
TextRank(f) == IF f.neg THEN 0 - f.n - 1 ELSE f.n
PointBefore(k1, k2) ==
    \/ TextRank(k1[1]) < TextRank(k2[1])
    \/ k1[1] = k2[1] /\ TextRank(k1[2]) < TextRank(k2[2])

\* getEdgeKey(p1, p2): the two rounded points, the smaller one first
getEdgeKey_Directed(p1, p2) ==
    <<<<toFixed5(p1[2]), toFixed5(p1[1])>>, <<toFixed5(p2[2]), toFixed5(p2[1])>>>>
getEdgeKey(p1, p2) ==
    LET k1 == <<toFixed5(p1[2]), toFixed5(p1[1])>>
        k2 == <<toFixed5(p2[2]), toFixed5(p2[1])>>
    IN IF PointBefore(k1, k2) THEN <<k1, k2>> ELSE <<k2, k1>>

\* the first loop of buildSegmentCollection: edgeCounts after segments i..
RECURSIVE CountEdges(_, _, _)
CountEdges(coords, i, edgeCounts) ==
    IF i > Len(coords) - 1 THEN edgeCounts
    ELSE LET key == getEdgeKey(coords[i], coords[i + 1])
             n == IF MapHas(edgeCounts, key) THEN edgeCounts[key] ELSE 0
         IN CountEdges(coords, i + 1, MapSet(edgeCounts, key, n + 1))

\* new Map(): the maps of a call are its own
NewMap_LeftByLastCall(last) == last
NewMap(last) == EmptyMap

\* allData[nearestIdx]?.[hourIndex] ?? null
NoEntry == [null |-> TRUE, speed_kmh |-> 0, direction_deg |-> 0]
WindEntryAt_LastKnown(allData, nearestIdx, hourIndex) ==
    IF (nearestIdx + 1) \notin DOMAIN allData THEN NoEntry
    ELSE IF allData[nearestIdx + 1].null THEN NoEntry
    ELSE LET series == allData[nearestIdx + 1].series
             e == series[Min(hourIndex + 1, Len(series))]
         IN [null |-> FALSE, speed_kmh |-> e.speed_kmh, direction_deg |-> e.direction_deg]
WindEntryAt(allData, nearestIdx, hourIndex) ==
    IF (nearestIdx + 1) \notin DOMAIN allData THEN NoEntry
    ELSE IF allData[nearestIdx + 1].null THEN NoEntry
    ELSE IF (hourIndex + 1) \notin DOMAIN allData[nearestIdx + 1].series THEN NoEntry
    ELSE LET e == allData[nearestIdx + 1].series[hourIndex + 1]
         IN [null |-> FALSE, speed_kmh |-> e.speed_kmh, direction_deg |-> e.direction_deg]

\* const hw = entry ? headwindComponent(...) : 0
WindContribution(bearing, entry) ==
    IF entry.null THEN 0
    ELSE headwindComponent(bearing, entry.direction_deg, entry.speed_kmh)

\* Math.max(-GRADE_CLAMP, Math.min(GRADE_CLAMP, rawGrade))
ClampGrade_Unclamped(rawGrade) == rawGrade
ClampGrade(rawGrade) == Max(0 - GRADE_CLAMP, Min(GRADE_CLAMP, rawGrade))

\* grade and climbPenalty of segment i: rawGrade = rise / distM, kept to
\* 1/1000, clamped to +-GRADE_CLAMP; only a climb is penalised
ClimbOf(coords, elevations, hasElev, i) ==
    LET distM == haversineMeters(coords[i][2], coords[i][1],
                                 coords[i + 1][2], coords[i + 1][1])
        rise == IF hasElev THEN elevations[i + 1] - elevations[i] ELSE 0
        rawGrade == IF distM = 0 THEN 0
                    ELSE (IF rise < 0 THEN 0 - 1 ELSE 1)
                         * ((Abs(rise) * 1000000) \div distM) * (UNIT \div 1000)
        g == ClampGrade(rawGrade)
    IN IF hasElev /\ distM > 100
       THEN [grade |-> g, climbPenalty |-> IF g > 0 THEN CLIMB_K * g ELSE 0]
       ELSE [grade |-> 0, climbPenalty |-> 0]

\* Math.max(...raws, 1e-6)
MaxRaw_NoFloor(raws) ==
    LET m == CHOOSE x \in {raws[j] : j \in DOMAIN raws} :
                 \A y \in {raws[j] : j \in DOMAIN raws} : y <= x
    IN m
MaxRaw(raws) ==
    LET all == {raws[j] : j \in DOMAIN raws} \cup {EPSILON}
    IN CHOOSE x \in all : \A y \in all : y <= x

\* edgeCounts.get(key) || dflt
MapGetOr(m, k, dflt) == IF MapHas(m, k) THEN m[k] ELSE dflt

\* headwindRaw of segment i: the wind of the sample nearest to its midpoint
HeadwindRawOf(coords, samplePoints, allData, hourIndex, i) ==
    Max(0, WindContribution(
        computeBearing(coords[i][2], coords[i][1], coords[i + 1][2], coords[i + 1][1]),
        WindEntryAt(allData,
            IF Len(samplePoints) > 0
            THEN nearestSampleIndex(coords[i][2] + coords[i + 1][2],
                                    coords[i][1] + coords[i + 1][1], samplePoints, 1,
                                    [found |-> FALSE, d |-> 0, idx |-> 0])
            ELSE 0,
            hourIndex)))

\* const sufferRaw = (includeWind ? headwindRaw : 0) + climbPenalty
SufferRaw(includeWind, headwindRaw, climbPenalty) ==
    (IF includeWind THEN headwindRaw ELSE 0) + climbPenalty

\* the entry of segmentData for a segment
SegmentStats(headwindRaw, climb, includeWind, p1, p2, passIndex) ==
    [headwindRaw |-> headwindRaw, grade |-> climb.grade,
     climbPenalty |-> climb.climbPenalty,
     sufferRaw |-> SufferRaw(includeWind, headwindRaw, climb.climbPenalty),
     coords |-> <<p1, p2>>, passIndex |-> passIndex]

\* passIndex of a segment of an edge with totalVisits traversals, visitsSoFar
\* of them before this one
PassIndex(totalVisits, visitsSoFar) ==
    IF totalVisits > 1 /\ visitsSoFar + 1 > 1 THEN 1 ELSE 0

\* edgeVisited after a segment
Visit(edgeVisited, edgeKey, totalVisits, visitsSoFar) ==
    IF totalVisits > 1 THEN MapSet(edgeVisited, edgeKey, visitsSoFar + 1)
    ELSE edgeVisited

\* one round of the scoring loop, for segment st.i with edge key edgeKey, on
\* st = [i, edgeVisited, segmentData]
ScoreSegment(coords, samplePoints, allData, hourIndex, elevations, hasElev, includeWind, edgeCounts, st, edgeKey) ==
    [i |-> st.i + 1,
     edgeVisited |-> Visit(st.edgeVisited, edgeKey, MapGetOr(edgeCounts, edgeKey, 1),
                           MapGetOr(st.edgeVisited, edgeKey, 0)),
     segmentData |-> Append(st.segmentData,
         SegmentStats(HeadwindRawOf(coords, samplePoints, allData, hourIndex, st.i),
                      ClimbOf(coords, elevations, hasElev, st.i),
                      includeWind, coords[st.i], coords[st.i + 1],
                      PassIndex(MapGetOr(edgeCounts, edgeKey, 1),
                                MapGetOr(st.edgeVisited, edgeKey, 0))))]

\* the scoring loop of buildSegmentCollection from segment st.i on
RECURSIVE ScoreSegments(_, _, _, _, _, _, _, _, _)
ScoreSegments(coords, samplePoints, allData, hourIndex, elevations, hasElev, includeWind, edgeCounts, st) ==
    IF st.i > Len(coords) - 1 THEN st
    ELSE ScoreSegments(coords, samplePoints, allData, hourIndex, elevations, hasElev,
                       includeWind, edgeCounts,
                       ScoreSegment(coords, samplePoints, allData, hourIndex, elevations,
                                    hasElev, includeWind, edgeCounts, st,
                                    getEdgeKey(coords[st.i], coords[st.i + 1])))

\* the features of segmentData: the score is the fraction num / den
Features(segmentData, maxRaw) ==
    [j \in DOMAIN segmentData |->
        [score |-> [num |-> segmentData[j].sufferRaw, den |-> maxRaw],
         headwindRaw |-> segmentData[j].headwindRaw, grade |-> segmentData[j].grade,
         climbPenalty |-> segmentData[j].climbPenalty,
         sufferRaw |-> segmentData[j].sufferRaw,
         totalScore |-> [num |-> segmentData[j].sufferRaw, den |-> maxRaw],
         passIndex |-> segmentData[j].passIndex,
         coordinates |-> segmentData[j].coords]]

\* the end of buildSegmentCollection, once the scoring loop has left st
Normalised(st, edgeCounts) ==
    [features |-> Features(st.segmentData,
                     MaxRaw([j \in DOMAIN st.segmentData |-> st.segmentData[j].sufferRaw])),
     maps |-> [edgeCounts |-> edgeCounts, edgeVisited |-> st.edgeVisited]]

\* the scoring loop and the end of buildSegmentCollection, once edgeCounts
\* is built
Scored(coords, samplePoints, allData, hourIndex, elevations, hasElev, includeWind, edgeCounts, edgeVisited) ==
    Normalised(ScoreSegments(coords, samplePoints, allData, hourIndex, elevations,
                             hasElev, includeWind, edgeCounts,
                             [i |-> 1, edgeVisited |-> edgeVisited, segmentData |-> <<>>]),
               edgeCounts)

\* buildSegmentCollection(coords, samplePoints, allData, hourIndex,
\* elevations, includeElevation, includeWind); `last` is the Maps the call
\* before built
buildSegmentCollection(coords, samplePoints, allData, hourIndex, elevations, includeElevation, includeWind, last) ==
    IF Len(coords) < 2
    THEN [features |-> <<>>, maps |-> last]
    ELSE Scored(coords, samplePoints, allData, hourIndex, elevations,
                includeElevation /\ Len(elevations) = Len(coords), includeWind,
                CountEdges(coords, 1, NewMap(last.edgeCounts)),
                NewMap(last.edgeVisited))

\* route points [lng, lat] on the meridian of LON and on the equator
RA == <<10 * LON, 43650000>>
RB == <<10 * LON, 43651000>>
RC == <<10 * LON, 43652000>>
RD == <<10 * LON, 43653000>>
ROUTE_North == <<RA, RB, RC, RD>>
ROUTE_OutBack == <<RA, RC, RA>>
ROUTE_East == <<<<0, 0>>, <<1000, 0>>, <<2000, 0>>>>
ROUTE_Stop == <<RA, RA, RB>>
ROUTE_Point == <<RA>>
\* three traversals of one edge, in both directions
ROUTE_Laps == <<RA, RC, RA, RC>>
\* out and back along the prime meridian, the return ending just south of
\* the equator and the start lying just north of it
ROUTE_Zero == <<<<0, 1>>, <<0, 1000>>, <<0, 0 - 1>>>>
Routes ==
    {ROUTE_North, ROUTE_OutBack, ROUTE_East, ROUTE_Stop, ROUTE_Point, ROUTE_Laps,
     ROUTE_Zero}

\* sample points of a route: none, or its first and its last point
SamplesOf(route) ==
    {<<>>,
     <<[lat |-> route[1][2], lon |-> route[1][1]],
       [lat |-> route[Len(route)][2], lon |-> route[Len(route)][1]]>>}

\* a series of n hours of wind of speed s (1/10 km/h) that comes from
\* direction d in the first hour and turns by 90 degrees every hour
WindSeries(n, s, d) ==
    [null |-> FALSE,
     series |-> [i \in 1..n |->
         [time |-> i - 1, speed_kmh |-> s, direction_deg |-> (d + 90 * (i - 1)) % 360]]]
NullSeries == [null |-> TRUE, series |-> <<>>]

\* allData of the hook: nothing yet, failed fetches, the same wind at both
\* samples, one failed fetch, a series of one hour, and no wind
AllDatas ==
    {<<>>,
     <<NullSeries, NullSeries>>,
     <<WindSeries(3, 120, 0), WindSeries(3, 120, 0)>>,
     <<WindSeries(3, 120, 0), NullSeries>>,
     <<WindSeries(1, 120, 0), WindSeries(3, 80, 45)>>,
     <<WindSeries(3, 0, 0), WindSeries(3, 0, 0)>>}
ScoreHours == {0, 1, 2, 3}

\* elevation profiles of a route, in metres: none, flat, hilly, steep, and one
\* sampled for a route with one more point
ElevationsOf(route) ==
    {<<>>,
     [i \in DOMAIN route |-> 100],
     [i \in DOMAIN route |-> 100 + 10 * ((i * i) % 5)],
     [i \in DOMAIN route |-> 100 + 100 * (i % 2)],
     [i \in 1..(Len(route) + 1) |-> 100 + 10 * i]}

\* the route layer before the first call, for every choice of arguments
InitScore ==
    /\ cache = EmptyMap
    /\ inflight = EmptyMap
    /\ arrowCache = EmptyMap
    /\ arrowInflight = EmptyMap
    /\ reqs = <<>>
    /\ calls = <<>>
    /\ handled = NotHandled
    /\ pool = IdlePool
    /\ hook = IdleHook
    /\ arrows = NoArrows
    /\ \E route \in Routes, data \in AllDatas, h \in {0, 3},
          eOn \in BOOLEAN, wOn \in BOOLEAN :
          \E samples \in SamplesOf(route), elevs \in ElevationsOf(route) :
             scoring = [NoScoring EXCEPT
                           !.coords = route, !.samplePoints = samples,
                           !.allData = data, !.hourIndex = h, !.elevations = elevs,
                           !.elevationOn = eOn, !.windOn = wOn]

\* the recolor effect: src.setData(buildSegmentCollection(routeCoords,
\* samplePoints, allData, hourIndex, elevations, elevationOn, windOn))
Rescored(sc) ==
    LET r == buildSegmentCollection(sc.coords, sc.samplePoints, sc.allData,
                                    sc.hourIndex, sc.elevations, sc.elevationOn,
                                    sc.windOn, sc.maps)
    IN [sc EXCEPT !.calls = sc.calls + 1, !.features = r.features, !.maps = r.maps]

\* the effect runs again with the arguments it had (the map style changed)
Recolor ==
    /\ scoring.calls < MaxScoreCalls
    /\ scoring' = Rescored(scoring)
    /\ UNCHANGED <<cache, inflight, arrowCache, arrowInflight, reqs, calls,
                   handled, pool, hook, arrows>>

\* the wind toggle is switched and the effect runs
ToggleWind ==
    /\ scoring.calls < MaxScoreCalls
    /\ scoring' = Rescored([scoring EXCEPT !.windOn = ~scoring.windOn])
    /\ UNCHANGED <<cache, inflight, arrowCache, arrowInflight, reqs, calls,
                   handled, pool, hook, arrows>>

\* the elevation toggle is switched and the effect runs
ToggleElevation ==
    /\ scoring.calls < MaxScoreCalls
    /\ scoring' = Rescored([scoring EXCEPT !.elevationOn = ~scoring.elevationOn])
    /\ UNCHANGED <<cache, inflight, arrowCache, arrowInflight, reqs, calls,
                   handled, pool, hook, arrows>>

\* the hour slider moves to h and the effect runs
SlideHour(h) ==
    /\ scoring.calls < MaxScoreCalls
    /\ h # scoring.hourIndex
    /\ scoring' = Rescored([scoring EXCEPT !.hourIndex = h])
    /\ UNCHANGED <<cache, inflight, arrowCache, arrowInflight, reqs, calls,
                   handled, pool, hook, arrows>>

NextScore ==
    \/ Recolor
    \/ ToggleWind
    \/ ToggleElevation
    \/ \E h \in ScoreHours : SlideHour(h)

SpecScore == InitScore /\ [][NextScore]_vars

----------------------------------------------------------------------------
(* GPX documents and parseGpx *)

\* an attribute of an element: getAttribute gives its text, or null
Attr(text) == [null |-> FALSE, text |-> text]
NoAttr == [null |-> TRUE, text |-> <<>>]

\* a number of JavaScript: a finite one in 1/1000000, NaN, or an infinity
Num(v) == [kind |-> "num", v |-> v]
NaN == [kind |-> "nan", v |-> 0]
Infinity == [kind |-> "inf", v |-> 1]
STR_Infinity == <<"I","n","f","i","n","i","t","y">>

IsDigit(c) == \E j \in DOMAIN DigitChars : DigitChars[j] = c
DigitValue(c) == (CHOOSE j \in DOMAIN DigitChars : DigitChars[j] = c) - 1

\* the text without its leading white space
RECURSIVE TrimStart(_)
TrimStart(s) == IF s # <<>> /\ s[1] = " " THEN TrimStart(Tail(s)) ELSE s

\* the number of digits of s from position i on
RECURSIVE DigitRun(_, _)
DigitRun(s, i) == IF i <= Len(s) /\ IsDigit(s[i]) THEN 1 + DigitRun(s, i + 1) ELSE 0

\* the decimal value of the n digits of s from position i on
RECURSIVE DigitsValue(_, _, _)
DigitsValue(s, i, n) ==
    IF n = 0 THEN 0 ELSE 10 * DigitsValue(s, i, n - 1) + DigitValue(s[i + n - 1])

RECURSIVE Pow10(_)
Pow10(n) == IF n = 0 THEN 1 ELSE 10 * Pow10(n - 1)

\* parseFloat(text): white space, a sign, then Infinity or the longest
\* prefix that is a decimal literal (digits, a point, digits; six decimals
\* are kept and an exponent part is not read), and NaN when there is none
parseFloat(text) ==
    LET t == TrimStart(text)
        signed == t # <<>> /\ t[1] \in {"-", "+"}
        neg == t # <<>> /\ t[1] = "-"
        u == IF signed THEN Tail(t) ELSE t
        ni == DigitRun(u, 1)
        hasDot == Len(u) > ni /\ u[ni + 1] = "."
        nf == IF hasDot THEN DigitRun(u, ni + 2) ELSE 0
        kept == Min(nf, 6)
        mag == DigitsValue(u, 1, ni) * UNIT
                   + DigitsValue(u, ni + 2, kept) * Pow10(6 - kept)
    IN IF Len(u) >= Len(STR_Infinity) /\ SubSeq(u, 1, Len(STR_Infinity)) = STR_Infinity
       THEN [Infinity EXCEPT !.v = IF neg THEN 0 - 1 ELSE 1]
       ELSE IF ni + nf = 0 THEN NaN
       ELSE Num(IF neg THEN 0 - mag ELSE mag)

\* isFinite(x)
isFinite(x) == x.kind = "num"

\* the document DOMParser builds: whether it holds a parsererror element,
\* its trk elements in document order, each with its trkpt elements, and its
\* rtept elements
Document(trks, rtepts) == [parsererror |-> FALSE, trks |-> trks, rtepts |-> rtepts]
NotXml == [parsererror |-> TRUE, trks |-> <<>>, rtepts |-> <<>>]

\* doc.querySelectorAll('trkpt'): the track points of track i and the later
\* ones, in document order
RECURSIVE TrackPoints(_, _)
TrackPoints(trks, i) ==
    IF i > Len(trks) THEN <<>> ELSE trks[i] \o TrackPoints(trks, i + 1)

\* groups.reduce((a, b) => (b.length > a.length ? b : a)) from group i on
RECURSIVE ReduceLonger_OrEqual(_, _, _)
ReduceLonger_OrEqual(groups, i, a) ==
    IF i > Len(groups) THEN a
    ELSE ReduceLonger_OrEqual(groups, i + 1, IF Len(groups[i]) >= Len(a) THEN groups[i] ELSE a)
RECURSIVE ReduceLonger(_, _, _)
ReduceLonger(groups, i, a) ==
    IF i > Len(groups) THEN a
    ELSE ReduceLonger(groups, i + 1, IF Len(groups[i]) > Len(a) THEN groups[i] ELSE a)

\* chosenPts.map(pt => [lon, lat]).filter(([lng, lat]) => isFinite(lng) &&
\* isFinite(lat)) from point i on, as pairs of 1/1000000 degree
RECURSIVE FiniteCoords(_, _)
FiniteCoords(pts, i) ==
    IF i > Len(pts) THEN <<>>
    ELSE LET lat == parseFloat(IF pts[i].lat.null THEN <<>> ELSE pts[i].lat.text)
             lon == parseFloat(IF pts[i].lon.null THEN <<>> ELSE pts[i].lon.text)
         IN (IF isFinite(lon) /\ isFinite(lat) THEN <<<<lon.v, lat.v>>>> ELSE <<>>)
                \o FiniteCoords(pts, i + 1)

\* the messages of the errors parseGpx throws (the first one with a hyphen for
\* its dash)
MSG_InvalidXml == "Invalid XML - file may not be a GPX"
MSG_NoPoints == "No track or route points found in GPX"
MSG_FewPoints == "GPX track has fewer than 2 valid points"
ParseThrew(message) == [threw |-> TRUE, message |-> message, coords |-> <<>>]
ParseReturned(coords) == [threw |-> FALSE, message |-> "", coords |-> coords]

\* parseGpx(text), on the document the text parses to
parseGpx(doc) ==
    IF doc.parsererror THEN ParseThrew(MSG_InvalidXml)
    ELSE LET trkpts == TrackPoints(doc.trks, 1)
             rtepts == IF Len(trkpts) = 0 THEN doc.rtepts ELSE <<>>
             allPts == IF Len(trkpts) > 0 THEN trkpts ELSE rtepts
             chosenPts == IF Len(doc.trks) > 1
                          THEN ReduceLonger(doc.trks, 2, doc.trks[1])
                          ELSE allPts
             coords == FiniteCoords(chosenPts, 1)
         IN IF Len(allPts) = 0 THEN ParseThrew(MSG_NoPoints)
            ELSE IF Len(coords) < 2 THEN ParseThrew(MSG_FewPoints)
            ELSE ParseReturned(coords)

\* texts of coordinates
TXT_Lon == <<"-","7","9",".","3","8","3","2","0">>
TXT_LatA == <<"4","3",".","6","5","0">>
TXT_LatB == <<"4","3",".","6","5","1">>
TXT_LatC == <<" ","4","3",".","6","5","2","m">>
TXT_LatD == <<"+","4","3",".","6","5","3","0","0","0">>
TXT_Word == <<"n","o","r","t","h">>
\* point elements: four that parse to the points RA, RB, RC, RD, one without
\* a latitude, one with a word as its longitude, one at infinity
GA == [lat |-> Attr(TXT_LatA), lon |-> Attr(TXT_Lon)]
GB == [lat |-> Attr(TXT_LatB), lon |-> Attr(TXT_Lon)]
GC == [lat |-> Attr(TXT_LatC), lon |-> Attr(TXT_Lon)]
GD == [lat |-> Attr(TXT_LatD), lon |-> Attr(TXT_Lon)]
G_NoLat == [lat |-> NoAttr, lon |-> Attr(TXT_Lon)]
G_Word == [lat |-> Attr(TXT_LatA), lon |-> Attr(TXT_Word)]
G_Inf == [lat |-> Attr(<<"-">> \o STR_Infinity), lon |-> Attr(TXT_Lon)]

\* documents: tracks, route points, both, empty tracks before route points,
\* points that do not parse, several tracks, no points, and no XML
Documents ==
    {Document(<<<<GA, GB, GC>>>>, <<>>),
     Document(<<<<GC, GB, GA>>>>, <<>>),
     Document(<<<<GA, GC, GA>>>>, <<>>),
     Document(<<<<GA, G_NoLat, GB, G_Inf, GC, G_Word, GD>>>>, <<>>),
     Document(<<<<GA, G_Word>>>>, <<>>),
     Document(<<<<G_Inf, G_NoLat>>>>, <<GA, GB>>),
     Document(<<<<GA, GB>>, <<GB, GC, GD>>>>, <<>>),
     Document(<<<<GA, GB>>, <<GC, GD>>>>, <<GB, GC, GD>>),
     Document(<<<<GA, GB, GC>>, <<G_Word, G_Inf, G_NoLat, GD>>>>, <<>>),
     Document(<<>>, <<GA, GB>>),
     Document(<<>>, <<GD, G_Word, GB, GA>>),
     Document(<<>>, <<GA>>),
     Document(<<<<>>>>, <<GB, GD>>),
     Document(<<<<>>, <<>>>>, <<GA, GB, GC>>),
     Document(<<>>, <<>>),
     Document(<<<<>>>>, <<>>),
     NotXml}

----------------------------------------------------------------------------
(* Loading a route: upload, default route, elevation sampling, recolor *)

\* sampleRoutePoints(coords, n): n evenly spaced points of the route,
\* Math.round((i / Math.max(n - 1, 1)) * (coords.length - 1)) being
\* floor((2 * i * (length - 1) + d) / (2 * d)) for d = max(n - 1, 1)
sampleRoutePoints(coords, n) ==
    IF Len(coords) = 0 THEN <<>>
    ELSE [k \in 1..n |->
            LET d == Max(n - 1, 1)
                idx == (2 * (k - 1) * (Len(coords) - 1) + d) \div (2 * d)
                p == coords[Min(idx, Len(coords) - 1) + 1]
            IN [lat |-> p[2], lon |-> p[1]]]

\* the terrain under a point, in metres
TerrainAt(p) == 100 + 10 * ((p[2] \div 1000) % 4)

\* sampleElevations(map, routeCoords): one elevation per route coordinate
sampleElevations(coords) == [i \in DOMAIN coords |-> TerrainAt(coords[i])]

\* no 'idle' listener is registered
NoListener == [set |-> FALSE, coords |-> <<>>, samplePoints |-> <<>>,
               elevationOn |-> FALSE, windOn |-> FALSE]

\* no parseGpx call yet
NoAttempt == [n |-> 0, kind |-> "none", doc |-> NotXml, result |-> ParseThrew("")]

\* the application with the map ready and the route source added, before
\* the default route has arrived; ran lists the buildSegmentCollection calls
\* of the latest step, each with the route its elevations were sampled for
NoRoute ==
    [calls |-> 0, coords |-> <<>>, samplePoints |-> <<>>, allData |-> <<>>,
     hourIndex |-> 0, elevations |-> <<>>, elevationOn |-> TRUE, windOn |-> TRUE,
     features |-> <<>>, maps |-> [edgeCounts |-> EmptyMap, edgeVisited |-> EmptyMap],
     gpxError |-> "", defaultLoad |-> "pending", loads |-> 0, toggles |-> 0,
     idle |-> NoListener, sampledFor |-> <<>>, attempt |-> NoAttempt, ran |-> <<>>]

\* src.setData(buildSegmentCollection(coords, samplePoints, allData,
\* hourIndex, elevations, elevationOn, windOn)) in the state rt
SetRouteData(rt, coords, samplePoints, elevations, elevationOn, windOn) ==
    LET r == buildSegmentCollection(coords, samplePoints, rt.allData, rt.hourIndex,
                                    elevations, elevationOn, windOn, rt.maps)
    IN [rt EXCEPT !.calls = rt.calls + 1, !.features = r.features, !.maps = r.maps,
                  !.ran = Append(rt.ran,
                      [coords |-> coords, elevations |-> elevations,
                       includeElevation |-> elevationOn,
                       sampledFor |-> rt.sampledFor])]

\* doSample of the elevation effect, with the values the effect closed over
doSample(rt, l) ==
    LET elevs == sampleElevations(l.coords)
    IN SetRouteData([rt EXCEPT !.elevations = elevs, !.sampledFor = l.coords],
                    l.coords, l.samplePoints, elevs, l.elevationOn, l.windOn)

\* the "Recolor route" effect
RecolorEffect(rt) ==
    SetRouteData(rt, rt.coords, rt.samplePoints, rt.elevations, rt.elevationOn,
                 rt.windOn)

\* the elevation sampling effect: its cleanup removes the listener of the
\* run before; then it samples now when the map is loaded, and on the next
\* 'idle' event otherwise
ElevationEffect(rt, loaded) ==
    LET l == [set |-> TRUE, coords |-> rt.coords, samplePoints |-> rt.samplePoints,
              elevationOn |-> rt.elevationOn, windOn |-> rt.windOn]
        off == [rt EXCEPT !.idle = NoListener]
    IN IF Len(rt.coords) < 2 THEN off
       ELSE IF loaded THEN doSample(off, l)
       ELSE [off EXCEPT !.idle = l]

\* the render after setRouteCoords(coords) and the effects that depend on
\* routeCoords, in the order of their declaration
RouteChanged(rt, coords, loaded) ==
    RecolorEffect(ElevationEffect(
        [rt EXCEPT !.coords = coords,
                   !.samplePoints = sampleRoutePoints(coords, N_SAMPLES)], loaded))

\* a parseGpx call of load attempt kind on doc
Attempt(rt, kind, doc) ==
    [rt EXCEPT !.attempt = [n |-> rt.attempt.n + 1, kind |-> kind, doc |-> doc,
                            result |-> parseGpx(doc)],
               !.ran = <<>>]

RouteFrame ==
    UNCHANGED <<cache, inflight, arrowCache, arrowInflight, reqs, calls, handled,
                pool, hook, arrows>>

\* handleGpxUpload and reader.onload for a file that holds doc
UploadGpx(doc) ==
    /\ scoring.loads < MaxLoads
    /\ \E loaded \in BOOLEAN :
          LET rt == Attempt([scoring EXCEPT !.loads = scoring.loads + 1], "upload", doc)
          IN scoring' = IF rt.attempt.result.threw
                        THEN [rt EXCEPT !.gpxError = rt.attempt.result.message]
                        ELSE RouteChanged([rt EXCEPT !.gpxError = ""],
                                          rt.attempt.result.coords, loaded)
    /\ RouteFrame

\* handleGpxUpload and reader.onerror
UploadUnreadable ==
    /\ scoring.loads < MaxLoads
    /\ scoring' = [scoring EXCEPT !.loads = scoring.loads + 1,
                                  !.gpxError = "Failed to read file", !.ran = <<>>]
    /\ RouteFrame

\* the default route arrives: .then((text) => ...) and .catch of the load
DefaultLoaded(doc) ==
    /\ scoring.defaultLoad = "pending"
    /\ \E loaded \in BOOLEAN :
          LET rt == Attempt([scoring EXCEPT !.defaultLoad = "done"], "default", doc)
          IN scoring' = RouteChanged(rt,
                            IF rt.attempt.result.threw THEN <<>>
                            ELSE rt.attempt.result.coords, loaded)
    /\ RouteFrame

\* the default route does not arrive (the request fails, or !res.ok)
DefaultFailed ==
    /\ scoring.defaultLoad = "pending"
    /\ \E loaded \in BOOLEAN :
          scoring' = RouteChanged([scoring EXCEPT !.defaultLoad = "done", !.ran = <<>>],
                                  <<>>, loaded)
    /\ RouteFrame

\* the map fires 'idle' and the listener of the elevation effect runs once
MapIdle ==
    /\ scoring.idle.set
    /\ scoring' = doSample([scoring EXCEPT !.idle = NoListener, !.ran = <<>>],
                           scoring.idle)
    /\ RouteFrame

\* the elevation toggle is switched: the recolor effect runs
SwitchElevation ==
    /\ scoring.toggles < MaxToggles
    /\ scoring' = RecolorEffect([scoring EXCEPT !.toggles = scoring.toggles + 1,
                                                !.elevationOn = ~scoring.elevationOn,
                                                !.ran = <<>>])
    /\ RouteFrame

InitRoute ==
    /\ cache = EmptyMap
    /\ inflight = EmptyMap
    /\ arrowCache = EmptyMap
    /\ arrowInflight = EmptyMap
    /\ reqs = <<>>
    /\ calls = <<>>
    /\ handled = NotHandled
    /\ pool = IdlePool
    /\ hook = IdleHook
    /\ arrows = NoArrows
    /\ scoring = NoRoute

NextRoute ==
    \/ \E doc \in Documents : UploadGpx(doc)
    \/ UploadUnreadable
    \/ \E doc \in Documents : DefaultLoaded(doc)
    \/ DefaultFailed
    \/ MapIdle
    \/ SwitchElevation

SpecRoute == InitRoute /\ [][NextRoute]_vars

----------------------------------------------------------------------------
(* buildGridPoints on its own *)

\* viewport bounds: corners in both hemispheres, and views with no height or
\* no width
GridViews ==
    {[sw |-> [lat |-> a, lng |-> b], ne |-> [lat |-> a + h, lng |-> b + w]] :
        a \in {4365200, 0 - 100}, b \in {0 - 7937800, 0 - 300},
        h \in {0, 200, 1001}, w \in {0, 1000, 1003}}

\* no call of buildGridPoints yet
NoGrid == [called |-> FALSE, bounds |-> VIEW_East, cols |-> 0, rows |-> 0, pts |-> <<>>]

\* a call buildGridPoints(bounds, cols, rows)
CallBuildGridPoints(bounds, cols, rows) ==
    /\ arrows' = [called |-> TRUE, bounds |-> bounds, cols |-> cols, rows |-> rows,
                  pts |-> buildGridPoints(bounds, cols, rows)]
    /\ UNCHANGED <<cache, inflight, arrowCache, arrowInflight, reqs, calls, handled,
                   pool, hook, scoring>>

InitGrid ==
    /\ cache = EmptyMap
    /\ inflight = EmptyMap
    /\ arrowCache = EmptyMap
    /\ arrowInflight = EmptyMap
    /\ reqs = <<>>
    /\ calls = <<>>
    /\ handled = NotHandled
    /\ pool = IdlePool
    /\ hook = IdleHook
    /\ scoring = NoScoring
    /\ arrows = NoGrid

NextGrid ==
    \E bounds \in GridViews, cols \in 1..MaxGrid, rows \in 1..MaxGrid :
        CallBuildGridPoints(bounds, cols, rows)

SpecGrid == InitGrid /\ [][NextGrid]_vars

----------------------------------------------------------------------------
(* The two pools under fair scheduling: a behaviour runs a batch of        *)
(* pooledMap or the refreshes of pooled.  Every pending request is         *)
(* answered in the end, and a worker whose promise has settled resumes.    *)
(* The workers of pooled resume within the step that answers a request.    *)

\* a step of the pooledMap batch, while no refresh has started
BatchStart ==
    /\ arrows = NoArrows
    /\ \E n \in 1..MaxBatch, c \in 1..MaxConcurrency : RunEffect(n, c)
BatchResume ==
    /\ arrows = NoArrows
    /\ \E w \in 1..(MaxBatch + 1) : WorkerResume(w)
BatchAnswer ==
    /\ arrows = NoArrows
    /\ \E i \in DOMAIN reqs, r \in BatchResponses : Respond(i, r)

\* a step of the arrow refreshes, while no batch has started
PooledStart ==
    /\ pool = IdlePool
    /\ \E x \in RefreshInputs : RefreshArrows(x.view, x.date)
PooledAnswer ==
    /\ pool = IdlePool
    /\ \E i \in DOMAIN reqs, a \in ArrowAnswers : ArrowRespond(i, a)

NextPools ==
    \/ BatchStart
    \/ BatchResume
    \/ BatchAnswer
    \/ PooledStart
    \/ PooledAnswer

\* a request of the arrow layer is waiting for the provider
ArrowPending ==
    \E i \in DOMAIN reqs : reqs[i].path = "arrow" /\ reqs[i].st = "pending"

\* the resumption of a worker and the answer to a request of the batch are
\* weakly fair; the requests of the arrow layer do not stay pending forever
SpecPools ==
    /\ Init
    /\ [][NextPools]_vars
    /\ WF_vars(BatchResume)
    /\ WF_vars(BatchAnswer)
    /\ []<>~ArrowPending

----------------------------------------------------------------------------
(* Vocabulary of the properties *)

\* this step appends a call
CallStep == Len(calls') = Len(calls) + 1
NewCall == calls'[Len(calls')]

\* request i settles in this step
SettlesNow(i) == reqs[i].st = "pending" /\ reqs'[i].st # "pending"

\* the text has "limit" at some position, in any mix of cases
HasLimitAnyCase(text) ==
    \E i \in 1..(Len(text) - 4) :
        /\ text[i] \in {"l", "L"}
        /\ text[i + 1] \in {"i", "I"}
        /\ text[i + 2] \in {"m", "M"}
        /\ text[i + 3] \in {"i", "I"}
        /\ text[i + 4] \in {"t", "T"}

\* the rate-limit signal of the provider: status 429, or a body with an
\* error flag and a reason string that contains "limit"
RateLimitSignal(r) ==
    \/ r.status = 429
    \/ /\ r.body.parses /\ ~r.body.isNull
       /\ r.body.error /\ r.body.reasonIsString
       /\ HasLimitAnyCase(r.body.reason)

----------------------------------------------------------------------------
(* C1: at most one provider request is outstanding per point-cache key, and *)
(* a fetchWindForPoint call for a key with an outstanding request issues no *)
(* new provider request.                                                    *)
C1_OneRequestPerKey ==
    [][ /\ \A i, j \in DOMAIN reqs' :
              (/\ reqs'[i].path = "point" /\ reqs'[j].path = "point"
               /\ reqs'[i].key = reqs'[j].key
               /\ reqs'[i].st = "pending" /\ reqs'[j].st = "pending") => i = j
        /\ (/\ CallStep
            /\ NewCall.fn = "fetchWindForPoint"
            /\ Outstanding(reqs, "point", NewCall.key) # {}) => reqs' = reqs
      ]_vars

\* a call has joined a request that is still outstanding
C1_Witness ==
    \E c \in DOMAIN calls :
        /\ calls[c].fn = "fetchWindForPoint"
        /\ calls[c].via = "join"
        /\ reqs[calls[c].joined].st = "pending"

(* C2: a fetchWindForPoint call made while a request for its key is         *)
(* outstanding settles exactly as the call that started the request: once   *)
(* the starter's promise is settled, the joiner's is settled with the same  *)
(* series or the same failure.                                              *)
C2_JoinersShareOutcome ==
    \A s, c \in DOMAIN calls :
        (/\ calls[s].fn = "fetchWindForPoint" /\ calls[c].fn = "fetchWindForPoint"
         /\ calls[s].via = "new"
         /\ calls[c].joined # 0
         /\ calls[c].joined = calls[s].ret.id
         /\ PromiseState(reqs, calls[s].ret).st # "pending")
        => PromiseState(reqs, calls[c].ret) = PromiseState(reqs, calls[s].ret)

\* a joined request has failed
C2_Witness ==
    \E c \in DOMAIN calls :
        /\ calls[c].fn = "fetchWindForPoint"
        /\ calls[c].via = "join"
        /\ reqs[calls[c].joined].st = "rejected"

(* C3: an entry of the point cache or of the arrow cache is never removed   *)
(* and never replaced by a different series.                                *)
C3_EntriesAreStable ==
    [][ /\ \A k \in DOMAIN cache : k \in DOMAIN cache' /\ cache'[k] = cache[k]
        /\ \A k \in DOMAIN arrowCache :
              k \in DOMAIN arrowCache' /\ arrowCache'[k] = arrowCache[k]
      ]_vars

\* a key with an entry has been fetched again
C3_Witness ==
    \E c \in DOMAIN calls :
        /\ calls[c].via = "hit"
        /\ \/ calls[c].fn = "fetchWindForPoint" /\ calls[c].key \in DOMAIN cache
           \/ calls[c].fn = "loadArrowPoint" /\ calls[c].key \in DOMAIN arrowCache

(* C4: a fetchWindForPoint call for a key the point cache holds returns the *)
(* cached series, issues no request and adds no in-flight marker; after a   *)
(* successful request for a key no request is issued for that key again.    *)
C4_HitIssuesNothing ==
    [][ /\ (/\ CallStep
            /\ NewCall.fn = "fetchWindForPoint"
            /\ NewCall.key \in DOMAIN cache)
           => /\ NewCall.ret = Resolved(cache[NewCall.key])
              /\ reqs' = reqs
              /\ inflight' = inflight
        /\ \A i \in DOMAIN reqs :
              (reqs[i].path = "point" /\ reqs[i].st = "fulfilled")
              => \A j \in DOMAIN reqs' \ DOMAIN reqs :
                    ~(reqs'[j].path = "point" /\ reqs'[j].key = reqs[i].key)
      ]_vars

\* a call was served from the point cache
C4_Witness ==
    \E c \in DOMAIN calls :
        /\ calls[c].fn = "fetchWindForPoint"
        /\ calls[c].via = "hit"
        /\ calls[c].ret.val = cache[calls[c].key]

RateLimitedNow(i) ==
    /\ SettlesNow(i)
    /\ handled'.req = i
    /\ RateLimitSignal(handled'.resp)

(* C6 as claimed: a RateLimited response is cached neither by               *)
(* fetchWindForPoint nor by loadArrowPoint and leaves no marker, so the     *)
(* next request for the key goes to the provider.                           *)
C6_RateLimitNeverCached ==
    [][ \A i \in DOMAIN reqs :
            RateLimitedNow(i)
            => /\ cache' = cache
               /\ arrowCache' = arrowCache
               /\ reqs[i].key \notin DOMAIN inflight'
               /\ reqs[i].key \notin DOMAIN arrowInflight'
      ]_vars

(* C6 amended: fetchWindForPoint does not cache a RateLimited response and  *)
(* the next call for the key issues a new request; loadArrowPoint stores    *)
(* the all-null series for it, as for any failure, and no later             *)
(* loadArrowPoint call for that key issues a request.                       *)
C6_RateLimitCachedByArrowsOnly ==
    [][ /\ \A i \in DOMAIN reqs :
              RateLimitedNow(i)
              => IF reqs[i].path = "point"
                 THEN /\ cache' = cache
                      /\ reqs[i].key \notin DOMAIN inflight'
                      /\ reqs'[i].st = "rejected"
                 ELSE /\ arrowCache' = MapSet(arrowCache, reqs[i].key, AllNull)
                      /\ reqs[i].key \notin DOMAIN arrowInflight'
        /\ (/\ CallStep
            /\ NewCall.fn = "fetchWindForPoint"
            /\ \E i \in DOMAIN reqs :
                  /\ reqs[i].path = "point" /\ reqs[i].key = NewCall.key
                  /\ reqs[i].st = "rejected" /\ IsLimitError(reqs[i].err)
            /\ NewCall.key \notin DOMAIN cache
            /\ Outstanding(reqs, "point", NewCall.key) = {})
           => Len(reqs') = Len(reqs) + 1
        /\ (/\ CallStep
            /\ NewCall.fn = "loadArrowPoint"
            /\ \E i \in DOMAIN reqs :
                  /\ reqs[i].path = "arrow" /\ reqs[i].key = NewCall.key
                  /\ reqs[i].st # "pending")
           => reqs' = reqs
      ]_vars

\* loadArrowPoint was called again for a key whose request was rate-limited
\* and was served from the all-null entry
C6_Witness ==
    /\ handled.seen /\ RateLimitSignal(handled.resp)
    /\ reqs[handled.req].path = "arrow"
    /\ arrowCache[reqs[handled.req].key] = AllNull
    /\ \E c \in DOMAIN calls :
          /\ calls[c].fn = "loadArrowPoint"
          /\ calls[c].via = "hit"
          /\ calls[c].key = reqs[handled.req].key

(* C7: handleOpenMeteoResponse fails with an error the caller reads as      *)
(* rate-limited exactly when the response carries the rate-limit signal     *)
(* (status 429, or an error body whose reason contains "limit" in any       *)
(* case); it then dispatches the event with detail true, and every other    *)
(* failure of the fetch is an error the caller does not read as             *)
(* rate-limited.                                                            *)
C7_RateLimitClassified ==
    handled.seen =>
        LET q == reqs[handled.req] IN
        /\ RateLimitSignal(handled.resp)
           <=> (handled.out.threw /\ IsLimitError(handled.out.err))
        /\ RateLimitSignal(handled.resp)
           => /\ q.st = "rejected"
              /\ q.err = handled.out.err
              /\ handled.out.events = <<TRUE>>
        /\ (q.st = "rejected" /\ ~RateLimitSignal(handled.resp))
           => ~IsLimitError(q.err)

\* a 200 response was classified as rate-limited by its upper-case reason
C7_Witness ==
    /\ handled.seen
    /\ handled.resp.status = 200
    /\ handled.resp.body.reason = REASON_DailyLIMIT
    /\ IsLimitError(reqs[handled.req].err)

(* C8: whenever a response crosses into the rate-limited condition or out   *)
(* of it (by a success or by another failure), handleOpenMeteoResponse      *)
(* dispatches 'wind-rate-limit' with the new state.                         *)
C8_CrossingIsNotified ==
    [][ (/\ handled'.seen
         /\ handled' # handled
         /\ (handled.seen /\ RateLimitSignal(handled.resp))
              # RateLimitSignal(handled'.resp))
        => handled'.out.events = <<RateLimitSignal(handled'.resp)>>
      ]_vars

(* C9: every series fetchWindForPoint stores in the point cache or returns  *)
(* has exactly 24 entries.                                                  *)
C9_SeriesHas24Entries ==
    /\ \A k \in DOMAIN cache : Len(cache[k]) = 24
    /\ \A c \in DOMAIN calls :
          (/\ calls[c].fn = "fetchWindForPoint"
           /\ PromiseState(reqs, calls[c].ret).st = "fulfilled")
          => Len(PromiseState(reqs, calls[c].ret).val) = 24

(* C10: during a batch of n points with concurrency limit c >= 1, at most   *)
(* min(c, n) of the batch's point fetches are outstanding at any instant.   *)
C10_PoolBound ==
    pool.running =>
        Cardinality(OutstandingFetches)
            <= Min(pool.concurrency, Len(pool.items))

\* a batch larger than its limit has the full limit outstanding after a
\* first fetch has completed
C10_Witness ==
    /\ pool.running
    /\ Len(pool.items) > pool.concurrency
    /\ pool.next > pool.concurrency
    /\ Cardinality(OutstandingFetches) = pool.concurrency
    /\ pool.concurrency = HOOK_CONCURRENCY

\* the key of item i of the running batch
ItemKey(i) == cacheKey(pool.items[i].lat, pool.items[i].lon, pool.date)

(* C11: a batch of n points returns exactly n results, and slot i holds the *)
(* outcome of input point i whatever the completion order: a series in      *)
(* slot i is the cached series of point i's key, a null in slot i comes     *)
(* from a failed request for point i's key.                                 *)
C11_ResultsInInputOrder ==
    pool.settled = "fulfilled" =>
        /\ Len(pool.results) = Len(pool.items)
        /\ \A i \in DOMAIN pool.items :
              /\ pool.results[i].set
              /\ ~pool.results[i].null =>
                    /\ ItemKey(i) \in DOMAIN cache
                    /\ pool.results[i].series = cache[ItemKey(i)]
              /\ pool.results[i].null =>
                    \E q \in DOMAIN reqs :
                        /\ reqs[q].path = "point"
                        /\ reqs[q].key = ItemKey(i)
                        /\ reqs[q].st = "rejected"

\* a batch has returned after its requests completed out of input order,
\* with a series and a null in it
C11_Witness ==
    /\ pool.settled = "fulfilled"
    /\ Len(pool.items) >= 3
    /\ pool.results[1].null
    /\ ~pool.results[2].null
    /\ handled.req = 1

(* C12: in a batch a point whose fetch fails has null in its own slot and   *)
(* the batch is not aborted: when pooledMap returns, every point has been   *)
(* fetched, every failed point has null and every point that succeeded has  *)
(* its series in its slot; pooledMap never rejects.                         *)
C12_FailureIsolated ==
    /\ pool.settled \in {"no", "fulfilled"}
    /\ pool.settled = "fulfilled" =>
          /\ Len(pool.fetches) = Len(pool.items)
          /\ \A i \in DOMAIN pool.items :
                LET ps == PromiseState(reqs, pool.fetches[i]) IN
                /\ ps.st # "pending"
                /\ ps.st = "rejected" => pool.results[i] = NullSlot
                /\ ps.st = "fulfilled" => pool.results[i] = SeriesSlot(ps.val)

\* a batch has returned with a rate-limited point and, after it, a point
\* that succeeded
C12_Witness ==
    /\ pool.settled = "fulfilled"
    /\ \E i, j \in DOMAIN pool.items :
          /\ i < j
          /\ PromiseState(reqs, pool.fetches[i]).st = "rejected"
          /\ IsLimitError(PromiseState(reqs, pool.fetches[i]).err)
          /\ pool.results[i] = NullSlot
          /\ ~pool.results[j].null

\* what a component sees of its hook
MultiView(h) == <<h.multi.allData, h.multi.loading, h.multi.error>>
SingleView(h) == <<h.single.hourlyData, h.single.isNull, h.single.loading, h.single.error>>

\* a cleanup runs in this step: the `cancelled` of the latest run of a hook
\* is set while the run waits, at an unmount (the run stays the latest) or at
\* the next run of the effect (the run becomes the old one)
CleanupStep ==
    \/ /\ pool.running /\ ~pool.cancelled /\ ~pool.delivered
       /\ \/ pool' = [pool EXCEPT !.cancelled = TRUE]
          \/ /\ hook'.multi.effects # hook.multi.effects
             /\ hook'.multi.old = [pool EXCEPT !.cancelled = TRUE]
    \/ /\ hook.single.cur.active /\ ~hook.single.cur.cancelled
       /\ ~hook.single.cur.delivered
       /\ \/ hook'.single.cur = [hook.single.cur EXCEPT !.cancelled = TRUE]
          \/ /\ hook'.single.effects # hook.single.effects
             /\ hook'.single.old = [hook.single.cur EXCEPT !.cancelled = TRUE]

\* the callback of a cancelled run is called in this step
CancelledDeliveryStep ==
    \/ pool.running /\ pool.cancelled /\ ~pool.delivered /\ pool'.delivered
    \/ /\ hook.multi.old.running /\ hook.multi.old.cancelled
       /\ ~hook.multi.old.delivered /\ hook'.multi.old.delivered
    \/ \E slot \in {"cur", "old"} :
          /\ hook.single[slot].active /\ hook.single[slot].cancelled
          /\ ~hook.single[slot].delivered /\ hook'.single[slot].delivered

\* C13: when a caller of useWindData or useMultiPointWindData is cancelled
\* (unmounted, or rendered with other points) while its requests are
\* outstanding, the requests are not aborted: the cleanup leaves every request
\* and every in-flight marker as it was, the workers of a cancelled pooledMap
\* go on, a request that succeeds afterwards still stores its series in the
\* cache, and the callback of the cancelled run changes nothing of what the
\* component sees.
C13_CancelledCallerDiscards ==
    [][ /\ CleanupStep =>
              /\ \A i \in DOMAIN reqs : i \in DOMAIN reqs' /\ reqs'[i] = reqs[i]
              /\ \A k \in DOMAIN inflight :
                    k \in DOMAIN inflight' /\ inflight'[k] = inflight[k]
        /\ \A i \in DOMAIN reqs :
              /\ i \in DOMAIN reqs'
              /\ reqs[i].st # "pending" => reqs'[i] = reqs[i]
              /\ (reqs[i].path = "point" /\ reqs[i].st = "pending"
                    /\ reqs'[i].st = "fulfilled") =>
                    /\ reqs[i].key \in DOMAIN cache'
                    /\ cache'[reqs[i].key] = reqs'[i].val
        /\ CancelledDeliveryStep =>
              /\ MultiView(hook') = MultiView(hook)
              /\ SingleView(hook') = SingleView(hook)
      ]_vars

\* both hooks were unmounted while their request was outstanding: the request
\* succeeded and is in the cache, both callbacks have run, and both
\* components still show the state of before
C13_Witness ==
    /\ pool.running /\ pool.cancelled /\ pool.delivered
    /\ \E i \in DOMAIN pool.results :
          /\ ~pool.results[i].null
          /\ ItemKey(i) \in DOMAIN cache
          /\ hook.multi.allData[i].null
    /\ hook.multi.loading
    /\ hook.single.cur.active /\ hook.single.cur.cancelled /\ hook.single.cur.delivered
    /\ PromiseState(reqs, hook.single.cur.ret).st = "fulfilled"
    /\ hook.single.isNull /\ hook.single.loading

\* the request i of loadArrowPoint fails in this step: fetch rejects (no
\* response is handled), handleOpenMeteoResponse throws, or the body it
\* returns has no hourly data to read
ArrowFailsNow(i) ==
    /\ reqs[i].path = "arrow"
    /\ SettlesNow(i)
    /\ \/ handled' = handled
       \/ handled'.out.threw
       \/ handled'.out.json.isNull
       \/ ~handled'.out.json.hourly.present

\* a series of 24 slots that are all null
IsAllNull24(series) ==
    /\ Len(series) = HOURS
    /\ \A h \in DOMAIN series : series[h] = ArrowNull

\* C14: when a loadArrowPoint request fails for any reason, a 24-slot
\* all-null series is stored under its 2-decimal key and the promise of the
\* call is fulfilled, not rejected; afterwards a loadArrowPoint call for that
\* key is served from the arrow cache and issues no provider request.
C14_FailureMarksKey ==
    [][ /\ \A i \in DOMAIN reqs :
              ArrowFailsNow(i) =>
                  /\ reqs[i].key \in DOMAIN arrowCache'
                  /\ IsAllNull24(arrowCache'[reqs[i].key])
                  /\ reqs'[i].st = "fulfilled"
                  /\ reqs[i].key \notin DOMAIN arrowInflight'
        /\ (/\ CallStep
            /\ NewCall.fn = "loadArrowPoint"
            /\ NewCall.key \in DOMAIN arrowCache
            /\ IsAllNull24(arrowCache[NewCall.key]))
           => /\ reqs' = reqs
              /\ NewCall.via = "hit"
              /\ arrowCache' = arrowCache
      ]_vars

\* the provider answered an arrow request with a server error that is not a
\* rate limit, and a later loadArrowPoint call for the key was a cache hit
C14_Witness ==
    /\ handled.seen /\ handled.out.threw /\ ~RateLimitSignal(handled.resp)
    /\ reqs[handled.req].path = "arrow"
    /\ reqs[handled.req].st = "fulfilled"
    /\ IsAllNull24(arrowCache[reqs[handled.req].key])
    /\ \E c \in DOMAIN calls :
          /\ calls[c].fn = "loadArrowPoint"
          /\ calls[c].key = reqs[handled.req].key
          /\ calls[c].via = "hit"

\* the loadArrowPoint calls that the pooled of call r makes in this step
NewArrowCalls(r) ==
    LET before == arrows.runs[r].log
        after == arrows'.runs[r].log
    IN {after[n] : n \in (Len(before) + 1)..Len(after)}

\* the requests issued in this step
NewRequests == {q \in DOMAIN reqs' : q > Len(reqs)}

\* C15: under any interleaving of refreshArrows calls, whose pooled runs
\* loadArrowPoint with limit 3, and of provider responses, at most one
\* provider request is outstanding per arrow key (lat and lng rounded to 2
\* decimals, date), a call for a key with an outstanding request joins that
\* request, and a call for a key in the arrow cache issues no request.
C15_OneArrowRequestPerKey ==
    [][ /\ \A i, j \in DOMAIN reqs' :
              (/\ reqs'[i].path = "arrow" /\ reqs'[j].path = "arrow"
               /\ reqs'[i].key = reqs'[j].key
               /\ reqs'[i].st = "pending" /\ reqs'[j].st = "pending") => i = j
        /\ \A r \in DOMAIN arrows.runs : \A e \in NewArrowCalls(r) :
              /\ e.key \in DOMAIN arrowCache' =>
                    /\ e.via = "hit"
                    /\ e.id = 0
                    /\ \A q \in NewRequests : reqs'[q].key # e.key
              /\ \A i \in Outstanding(reqs', "arrow", e.key) :
                    /\ e.via \in {"new", "join"}
                    /\ e.id = i
                    /\ i \in DOMAIN reqs => e.via = "join"
        /\ \A r \in DOMAIN arrows.runs :
              Cardinality(DOMAIN arrows'.runs[r].workers) <= ARROW_CONCURRENCY
      ]_vars

\* a refreshArrows call has made a call that opened a request, a call that
\* joined it and, in the cell whose entry was cached before, a call that was
\* a cache hit
C15_Witness ==
    \E r \in DOMAIN arrows.runs :
        LET log == arrows.runs[r].log IN
        /\ \E a, b \in DOMAIN log :
              /\ log[a].via = "new" /\ log[b].via = "join"
              /\ log[a].id = log[b].id
              /\ reqs[log[a].id].st = "pending"
        /\ \E c \in DOMAIN log :
              /\ log[c].via = "hit"
              /\ log[c].key \in DOMAIN arrowCache

\* the entry of key k at hourIndex is in the arrow cache and is not null
HasEntryAt(k, hourIndex) ==
    /\ k \in DOMAIN arrowCache
    /\ (hourIndex + 1) \in DOMAIN arrowCache[k]
    /\ ~arrowCache[k][hourIndex + 1].null

\* squared lat/lng distance from the place a key names to a grid point
KeyDistance(k, pt) ==
    LET dlat == (IF k[1].neg THEN 0 - k[1].n ELSE k[1].n) * 1000 - pt.lat
        dlng == (IF k[2].neg THEN 0 - k[2].n ELSE k[2].n) * 1000 - pt.lng
    IN dlat * dlat + dlng * dlng

\* the glyphs that the claim allows for the grid pts on the arrow cache
GlyphsAsClaimed(glyphs, pts, date, hourIndex) ==
    LET SameDay == {k \in DOMAIN arrowCache : k[3] = date /\ HasEntryAt(k, hourIndex)}
        Own(pt) == arrowKey(pt.lat, pt.lng, date)
        Drawn(pt) == HasEntryAt(Own(pt), hourIndex) \/ SameDay # {}
        kept == SelectSeq(pts, Drawn)
    IN /\ Len(glyphs) = Len(kept)
       /\ \A n \in DOMAIN glyphs :
             LET g == glyphs[n]
                 pt == kept[n]
             IN /\ g.coordinates = <<pt.lng, pt.lat>>
                /\ IF HasEntryAt(Own(pt), hourIndex)
                   THEN /\ g.speed = arrowCache[Own(pt)][hourIndex + 1].speed_kmh
                        /\ g.direction = arrowCache[Own(pt)][hourIndex + 1].direction_deg
                   ELSE \E k \in SameDay :
                        /\ \A k2 \in SameDay : KeyDistance(k, pt) <= KeyDistance(k2, pt)
                        /\ g.speed = arrowCache[k][hourIndex + 1].speed_kmh
                        /\ g.direction = arrowCache[k][hourIndex + 1].direction_deg

Segments == 1..(Len(scoring.coords) - 1)

\* the sample nearest to the midpoint of segment j, the first one of those
\* equally near, as a 1-based index; 1 when there is no sample
NearestSample(j) ==
    LET p == scoring.coords[j]
        q == scoring.coords[j + 1]
        D(k) == (2 * scoring.samplePoints[k].lat - (p[2] + q[2]))
                    * (2 * scoring.samplePoints[k].lat - (p[2] + q[2]))
                + (2 * scoring.samplePoints[k].lon - (p[1] + q[1]))
                    * (2 * scoring.samplePoints[k].lon - (p[1] + q[1]))
    IN IF scoring.samplePoints = <<>> THEN 1
       ELSE CHOOSE k \in DOMAIN scoring.samplePoints :
                \A m \in DOMAIN scoring.samplePoints :
                    D(k) < D(m) \/ (D(k) = D(m) /\ k <= m)

\* the wind series have an entry at hourIndex for the sample nearest to
\* segment j
HasWind(j) ==
    /\ NearestSample(j) \in DOMAIN scoring.allData
    /\ ~scoring.allData[NearestSample(j)].null
    /\ (scoring.hourIndex + 1) \in DOMAIN scoring.allData[NearestSample(j)].series

\* that entry
WindOf(j) == scoring.allData[NearestSample(j)].series[scoring.hourIndex + 1]

\* C17: scoring never fails because wind is missing: when the series of
\* sample points are null or have no entry at hourIndex,
\* buildSegmentCollection still returns one feature with a score per segment,
\* and a segment whose nearest sample has no entry has wind contribution 0.
C17_MissingWindScoresZero ==
    scoring.calls > 0 =>
        /\ DOMAIN scoring.features = Segments
        /\ \A j \in Segments :
              /\ scoring.features[j].score.den > 0
              /\ scoring.features[j].score.num >= 0
              /\ scoring.features[j].coordinates = <<scoring.coords[j], scoring.coords[j + 1]>>
              /\ ~HasWind(j) =>
                    /\ scoring.features[j].headwindRaw = 0
                    /\ scoring.features[j].sufferRaw = scoring.features[j].climbPenalty

\* a route was scored with wind on where one segment has a headwind and
\* another one, whose nearest sample has a null series, has none
C17_Witness ==
    /\ scoring.calls > 0
    /\ scoring.windOn
    /\ \E j, k \in Segments :
          /\ HasWind(j) /\ scoring.features[j].headwindRaw > 0
          /\ ~HasWind(k)
          /\ NearestSample(k) \in DOMAIN scoring.allData
          /\ scoring.allData[NearestSample(k)].null
          /\ scoring.features[k].headwindRaw = 0

\* the largest sufferRaw of the route that was scored
IsMaxSuffer(x) ==
    /\ \E j \in Segments : scoring.features[j].sufferRaw = x
    /\ \A j \in Segments : scoring.features[j].sufferRaw <= x

\* C18: every segment's score is its sufferRaw divided by max(the largest
\* sufferRaw of the route, epsilon = 1e-6): all scores lie in [0, 1], the
\* segment with the largest sufferRaw scores 1 when that maximum is at least
\* epsilon, and when every sufferRaw is 0 every score is 0.
C18_ScoreIsNormalised ==
    scoring.calls > 0 =>
        \A j \in Segments :
            LET f == scoring.features[j] IN
            /\ f.score.num = f.sufferRaw
            /\ \/ IsMaxSuffer(f.score.den) /\ f.score.den >= EPSILON
               \/ f.score.den = EPSILON /\ \A k \in Segments : scoring.features[k].sufferRaw <= EPSILON
            /\ 0 <= f.score.num /\ f.score.num <= f.score.den
            /\ (IsMaxSuffer(f.sufferRaw) /\ f.sufferRaw >= EPSILON) => f.score.num = f.score.den
            /\ (\A k \in Segments : scoring.features[k].sufferRaw = 0) =>
                  f.score.num = 0 /\ f.score.den > 0
            /\ f.totalScore = f.score

\* a route was scored where one segment scores 1 and another one scores
\* between 0 and 1
C18_Witness ==
    /\ scoring.calls > 0
    /\ \E j, k \in Segments :
          /\ scoring.features[j].score.num = scoring.features[j].score.den
          /\ 0 < scoring.features[k].score.num
          /\ scoring.features[k].score.num < scoring.features[k].score.den

\* buildSegmentCollection is called in this step
ScoreStep == scoring'.calls = scoring.calls + 1

\* the arguments of the call of this step are those of the call before it
SameArguments ==
    /\ scoring.calls > 0
    /\ scoring'.coords = scoring.coords
    /\ scoring'.samplePoints = scoring.samplePoints
    /\ scoring'.allData = scoring.allData
    /\ scoring'.hourIndex = scoring.hourIndex
    /\ scoring'.elevations = scoring.elevations
    /\ scoring'.elevationOn = scoring.elevationOn
    /\ scoring'.windOn = scoring.windOn

\* C19: two calls of buildSegmentCollection with identical arguments return
\* identical per-segment results, and a call changes neither the arrays it
\* is given nor the wind caches nor the in-flight maps, and issues no request.
C19_ScoringIsPure ==
    [][ScoreStep =>
          /\ SameArguments => scoring'.features = scoring.features
          /\ scoring'.coords = scoring.coords
          /\ scoring'.samplePoints = scoring.samplePoints
          /\ scoring'.allData = scoring.allData
          /\ scoring'.elevations = scoring.elevations
          /\ cache' = cache /\ arrowCache' = arrowCache
          /\ inflight' = inflight /\ arrowInflight' = arrowInflight
          /\ reqs' = reqs]_vars

\* an out-and-back route was scored twice, the second traversal of its edge
\* with a penalty of its own
C19_Witness ==
    /\ scoring.calls = 2
    /\ \E j, k \in Segments :
          /\ scoring.features[j].passIndex = 0
          /\ scoring.features[k].passIndex = 1
          /\ scoring.features[k].sufferRaw > 0

\* the bearing of segment j
BearingOf(j) ==
    computeBearing(scoring.coords[j][2], scoring.coords[j][1],
                   scoring.coords[j + 1][2], scoring.coords[j + 1][1])

\* the route is straight, with no elevation in the score, and the wind of
\* speed s > 0 comes from direction d at every segment
StraightInWind(b, d, s) ==
    /\ scoring.calls > 0
    /\ scoring.windOn
    /\ Len(scoring.coords) >= 2
    /\ s > 0
    /\ \A j \in Segments :
          /\ scoring.coords[j] # scoring.coords[j + 1]
          /\ BearingOf(j) = b
          /\ scoring.features[j].climbPenalty = 0
          /\ HasWind(j)
          /\ WindOf(j).speed_kmh = s
          /\ WindOf(j).direction_deg = d

\* C20: wind from the travel bearing b with speed s >= 0 gives headwind
\* component s, and wind from (b + 180) mod 360 gives -s, floored to 0: on a
\* straight route with no elevation, wind from the travel bearing with s > 0
\* scores every segment 1, and wind from the opposite bearing scores every
\* segment 0.
C20_HeadOnAndTailWind ==
    \A b \in {0, 90, 180, 270}, s \in {0, 80, 120} :
        /\ headwindComponent(b, b, s) = s * CosTable[1]
        /\ headwindComponent(b, (b + 180) % 360, s) = - s * CosTable[1]
        /\ StraightInWind(b, b, s) =>
              \A j \in Segments :
                  /\ scoring.features[j].headwindRaw = s * CosTable[1]
                  /\ scoring.features[j].score.num = scoring.features[j].score.den
                  /\ scoring.features[j].score.den > 0
        /\ StraightInWind(b, (b + 180) % 360, s) =>
              \A j \in Segments :
                  /\ scoring.features[j].headwindRaw = 0
                  /\ scoring.features[j].score.num = 0
                  /\ scoring.features[j].score.den > 0

\* a straight route was scored in a tail wind after it was scored in a wind
\* from its travel bearing
C20_Witness ==
    /\ scoring.calls = 2
    /\ StraightInWind(0, 180, 120)
    /\ Len(scoring.features) = 3
    /\ \A j \in Segments : scoring.features[j].score.num = 0

\* the coordinates a point element stands for, as a list of none or one
CoordsOf(pt) ==
    IF pt = GA THEN <<RA>> ELSE IF pt = GB THEN <<RB>>
    ELSE IF pt = GC THEN <<RC>> ELSE IF pt = GD THEN <<RD>> ELSE <<>>

\* the valid points among pts from point i on, in their order
RECURSIVE ValidPoints(_, _)
ValidPoints(pts, i) ==
    IF i > Len(pts) THEN <<>> ELSE CoordsOf(pts[i]) \o ValidPoints(pts, i + 1)

\* the document has no track point
NoTrackPoint(doc) == \A i \in DOMAIN doc.trks : doc.trks[i] = <<>>

\* the points parseGpx chooses: of several tracks those of the first longest
\* one, else the track points, else the route points
ChosenPoints(doc) ==
    IF Len(doc.trks) > 1
    THEN doc.trks[CHOOSE i \in DOMAIN doc.trks :
                     \A j \in DOMAIN doc.trks :
                         /\ Len(doc.trks[j]) <= Len(doc.trks[i])
                         /\ j < i => Len(doc.trks[j]) < Len(doc.trks[i])]
    ELSE IF ~NoTrackPoint(doc) THEN doc.trks[1]
    ELSE doc.rtepts

\* C21: parseGpx on a well-formed document fails with NoPoints when the
\* document has no point element, fails with InsufficientPoints when fewer
\* than 2 of the chosen points have a finite latitude and longitude, and
\* otherwise returns exactly the valid points, in document order, as
\* (lon, lat) pairs.
C21_ParseOutcome ==
    (scoring.attempt.n > 0 /\ ~scoring.attempt.doc.parsererror) =>
        LET doc == scoring.attempt.doc
            r == scoring.attempt.result
            valid == ValidPoints(ChosenPoints(doc), 1)
        IN IF NoTrackPoint(doc) /\ doc.rtepts = <<>>
           THEN r.threw /\ r.message = MSG_NoPoints
           ELSE IF Len(valid) < 2
           THEN r.threw /\ r.message = MSG_FewPoints
           ELSE ~r.threw /\ r.coords = valid

\* a track with points that do not parse between its valid ones was parsed
\* to its four valid points
C21_Witness ==
    /\ scoring.attempt.n > 0
    /\ ~scoring.attempt.result.threw
    /\ Len(ChosenPoints(scoring.attempt.doc)) = 7
    /\ scoring.attempt.result.coords = <<RA, RB, RC, RD>>

\* C22: when a document holds no track point but route points, parseGpx
\* falls back to the route points and succeeds with them whenever at least 2
\* are valid, whatever the number of track elements (none, one, several
\* empty ones).
C22_FallsBackToRoutePoints ==
    (/\ scoring.attempt.n > 0
     /\ ~scoring.attempt.doc.parsererror
     /\ NoTrackPoint(scoring.attempt.doc)
     /\ Len(ValidPoints(scoring.attempt.doc.rtepts, 1)) >= 2) =>
        /\ ~scoring.attempt.result.threw
        /\ scoring.attempt.result.coords = ValidPoints(scoring.attempt.doc.rtepts, 1)

\* C23: a load attempt that fails with a ParseError, an upload or the load
\* of the default route, leaves routeCoords as it was before the attempt.
C23_FailedLoadKeepsRoute ==
    [][(/\ scoring'.attempt.n = scoring.attempt.n + 1
        /\ scoring'.attempt.result.threw) => scoring'.coords = scoring.coords]_vars

\* C24: whenever buildSegmentCollection runs with elevation enabled, the
\* elevation profile it is given is empty or was sampled for the route it
\* scores, so that no pass combines a new route with the elevations of the
\* route before it, the two routes having the same number of points or not.
C24_ProfileBelongsToRoute ==
    \A k \in DOMAIN scoring.ran :
        scoring.ran[k].includeElevation =>
            \/ scoring.ran[k].elevations = <<>>
            \/ scoring.ran[k].sampledFor = scoring.ran[k].coords

\* a coordinate as toFixed(5) prints it: its sign and its magnitude rounded
\* to 5 decimals
Rounded5(x) == [neg |-> x < 0, n |-> ((IF x < 0 THEN 0 - x ELSE x) + 5) \div 10]

\* the undirected edge identity of segment j: its two rounded endpoints
EdgeOf(j) ==
    {<<Rounded5(scoring.coords[j][1]), Rounded5(scoring.coords[j][2])>>,
     <<Rounded5(scoring.coords[j + 1][1]), Rounded5(scoring.coords[j + 1][2])>>}

\* the features with every passIndex set to 0
WithoutPassIndex(features) ==
    [j \in DOMAIN features |-> [features[j] EXCEPT !.passIndex = 0]]

C26_WindOffMeansNoHeadwind ==
    (scoring.calls > 0 /\ ~scoring.windOn) =>
        \A j \in Segments :
            /\ scoring.features[j].headwindRaw = 0
            /\ scoring.features[j].sufferRaw = scoring.features[j].climbPenalty

\* the length of segment j, in millimetres
LengthOf(j) ==
    haversineMeters(scoring.coords[j][2], scoring.coords[j][1],
                    scoring.coords[j + 1][2], scoring.coords[j + 1][1])

\* the rise of segment j, in metres
RiseOf(j) == scoring.elevations[j + 1] - scoring.elevations[j]

\* a climb penalty applies to segment j
ClimbApplies(j) ==
    /\ scoring.elevationOn
    /\ Len(scoring.elevations) = Len(scoring.coords)
    /\ LengthOf(j) > 100

\* g, in 1/1000, is rise / distance cut to 3 decimals and clamped to
\* [-0.5, 0.5]
IsClampedGrade(g, rise, dist) ==
    LET a == IF rise < 0 THEN 0 - rise ELSE rise
        m == IF g < 0 THEN 0 - g ELSE g
    IN /\ m <= 500
       /\ (rise > 0 => g >= 0) /\ (rise < 0 => g <= 0) /\ (rise = 0 => g = 0)
       /\ m * dist <= a * 1000000
       /\ m < 500 => (m + 1) * dist > a * 1000000

\* C27: a climb penalty is applied to a segment only when elevation is
\* enabled, the profile has exactly one value per route point and the
\* segment is longer than 0.1 m; then grade is rise / distance clamped to
\* [-0.5, 0.5], climbPenalty is 600 x grade when grade > 0 and 0 otherwise
\* (so between 0 and 300), and the signed grade is reported; in every other
\* case grade and climbPenalty are both 0.
C27_ClimbPenalty ==
    scoring.calls > 0 =>
        \A j \in Segments :
            LET f == scoring.features[j] IN
            IF ClimbApplies(j)
            THEN /\ f.grade % 1000 = 0
                 /\ IsClampedGrade(f.grade \div 1000, RiseOf(j), LengthOf(j))
                 /\ f.climbPenalty = IF f.grade > 0 THEN 600 * f.grade ELSE 0
                 /\ 0 <= f.climbPenalty /\ f.climbPenalty <= 300 * UNIT
            ELSE f.grade = 0 /\ f.climbPenalty = 0

\* a route was scored that climbs at more than 0.5 in one segment, where the
\* penalty is 300, and descends at more than 0.5 in another one, which is
\* reported as -0.5 with no penalty
C27_Witness ==
    /\ scoring.calls > 0
    /\ \E j, k \in Segments :
          /\ ClimbApplies(j) /\ ClimbApplies(k)
          /\ 2 * RiseOf(j) * 1000 > LengthOf(j)
          /\ scoring.features[j].grade = UNIT \div 2
          /\ scoring.features[j].climbPenalty = 300 * UNIT
          /\ 2 * (0 - RiseOf(k)) * 1000 > LengthOf(k)
          /\ scoring.features[k].grade = 0 - UNIT \div 2
          /\ scoring.features[k].climbPenalty = 0

\* C28: buildGridPoints called with cols = 1 or rows = 1 does not divide by
\* zero: every point it returns has a well-defined latitude and longitude
\* within the viewport bounds.
C28_OneRowOrColumn ==
    (arrows.called /\ (arrows.cols = 1 \/ arrows.rows = 1)) =>
        /\ arrows.pts # <<>>
        /\ \A n \in DOMAIN arrows.pts :
              LET p == arrows.pts[n] IN
              /\ p.nan = {}
              /\ arrows.bounds.sw.lat <= p.lat /\ p.lat <= arrows.bounds.ne.lat
              /\ arrows.bounds.sw.lng <= p.lng /\ p.lng <= arrows.bounds.ne.lng

\* C30: once the wind toggle is off, the wind-arrow layer stays hidden until
\* the toggle is switched on again, also when an arrow refresh that started
\* while wind was on completes after the switch.
C30_HiddenWhileWindOff == ~arrows.windOn => ~arrows.visible

\* the batch of pooledMap has completed with every item taken once, in
\* order, and its result stored
BatchComplete ==
    /\ pool.settled = "fulfilled"
    /\ pool.next = Len(pool.items)
    /\ Len(pool.fetches) = Len(pool.items)
    /\ \A i \in DOMAIN pool.items : pool.results[i].set
    /\ \A w \in DOMAIN pool.workers : pool.workers[w].pc = "done"

\* run r of pooled has completed with every function called once, in order
PooledComplete(r) ==
    LET run == arrows.runs[r] IN
    /\ run.settled
    /\ run.next = Len(run.grid)
    /\ Len(run.log) = Len(run.grid)
    /\ \A i \in DOMAIN run.grid :
          run.log[i].key = arrowKey(run.grid[i].lat, run.grid[i].lng, run.date)
    /\ \A w \in DOMAIN run.workers : run.workers[w].pc = "done"

\* no item is taken twice or out of turn while a pool runs
TakenInOrder ==
    /\ Len(pool.fetches) = pool.next
    /\ pool.next <= Len(pool.items)
    /\ \A w1, w2 \in DOMAIN pool.workers :
          (w1 # w2 /\ pool.workers[w1].pc = "await" /\ pool.workers[w2].pc = "await")
              => pool.workers[w1].i # pool.workers[w2].i
    /\ \A r \in 1..MaxRefresh :
          /\ Len(arrows.runs[r].log) = arrows.runs[r].next
          /\ arrows.runs[r].next <= Len(arrows.runs[r].grid)

\* C29: if every provider request eventually succeeds or fails, a batch run
\* by pooledMap or by pooled, over any number of items and with any limit
\* >= 1, eventually completes, and the function of each item has then been
\* called exactly once (none skipped, none started twice), whatever the
\* order in which the requests complete.
C29_PoolsComplete ==
    /\ pool.running ~> BatchComplete
    /\ \A r \in 1..MaxRefresh : arrows.runs[r].running ~> PooledComplete(r)
    /\ [](pool.settled # "no" => BatchComplete)
    /\ [](\A r \in 1..MaxRefresh : arrows.runs[r].settled => PooledComplete(r))
    /\ []TakenInOrder

\* a batch of four items run by two workers has completed
C29_Witness ==
    /\ BatchComplete
    /\ Len(pool.items) = 4
    /\ pool.concurrency = 2
    /\ \E i \in DOMAIN pool.results : pool.results[i].null
    /\ \E i \in DOMAIN pool.results : ~pool.results[i].null

====
